---- MODULE Spec2Model ----
(***************************************************************************)
(* Model of cascade (unrss/cascade): the allow/deny/trust authorization    *)
(* store, script records, path predicates and the export orchestrator.     *)
(*                                                                         *)
(* Strings are sequences of one-character strings, so that prefix tests,   *)
(* slicing and filepath.Clean are computed as the code computes them.      *)
(* SHA-256 is modelled as a collision-free tagging of its input.           *)
(***************************************************************************)
EXTENDS Integers, Sequences, FiniteSets, TLC

\* ------------------------------------------------------------------------
\* Bounds
\* ------------------------------------------------------------------------

\* Number of distinct file contents a script may have.
NumContents == 2

\* ------------------------------------------------------------------------
\* Strings and paths (path/filepath as used by the sources)
\* ------------------------------------------------------------------------

Separator == "/"

HasPrefix(s, prefix) ==
  Len(s) >= Len(prefix) /\ SubSeq(s, 1, Len(prefix)) = prefix

\* Elements of s between separators (strings.Split on the separator).
RECURSIVE SplitSep(_)
SplitSep(s) ==
  IF s = <<>> THEN << <<>> >>
  ELSE LET rest == SplitSep(Tail(s)) IN
       IF Head(s) = Separator
       THEN << <<>> >> \o rest
       ELSE << (<<Head(s)>> \o Head(rest)) >> \o Tail(rest)

RECURSIVE CleanElems(_, _, _)
CleanElems(elems, out, rooted) ==
  IF elems = <<>> THEN out
  ELSE LET e == Head(elems) IN
       IF e = <<>> \/ e = <<".">>
       THEN CleanElems(Tail(elems), out, rooted)
       ELSE IF e = <<".", ".">>
       THEN IF out # <<>> /\ out[Len(out)] # <<".", ".">>
            THEN CleanElems(Tail(elems), SubSeq(out, 1, Len(out) - 1), rooted)
            ELSE IF rooted
                 THEN CleanElems(Tail(elems), out, rooted)
                 ELSE CleanElems(Tail(elems), Append(out, e), rooted)
       ELSE CleanElems(Tail(elems), Append(out, e), rooted)

RECURSIVE JoinSep(_)
JoinSep(elems) ==
  IF elems = <<>> THEN <<>>
  ELSE IF Len(elems) = 1 THEN Head(elems)
  ELSE Head(elems) \o <<Separator>> \o JoinSep(Tail(elems))

\* filepath.Clean: collapse separators, drop "." elements, resolve "..",
\* strip the trailing separator; the empty path becomes ".".
Clean(path) ==
  IF path = <<>> THEN <<".">>
  ELSE LET rooted == path[1] = Separator
           body   == JoinSep(CleanElems(SplitSep(path), <<>>, rooted))
       IN IF rooted THEN <<Separator>> \o body
          ELSE IF body = <<>> THEN <<".">> ELSE body

\* filepath.Abs on the absolute paths the model passes: Clean.
Abs(path) == Clean(path)

RECURSIVE LastSep(_)
LastSep(path) ==
  IF path = <<>> THEN 0
  ELSE IF path[Len(path)] = Separator THEN Len(path)
  ELSE LastSep(SubSeq(path, 1, Len(path) - 1))

\* filepath.Dir: everything up to the last separator, cleaned.
Dir(path) == Clean(SubSeq(path, 1, LastSep(path)))

\* filepath.Join of two elements.
Join(dir, name) == Clean(dir \o <<Separator>> \o name)

envrcName == <<".", "e", "n", "v", "r", "c">>

\* ------------------------------------------------------------------------
\* The directories and scripts of the modelled file tree
\* ------------------------------------------------------------------------

DirH  == <<"/", "h">>
DirT  == <<"/", "h", "/", "t">>
DirTO == <<"/", "h", "/", "t", "o">>

PathH  == Join(DirH, envrcName)
PathT  == Join(DirT, envrcName)
PathTO == Join(DirTO, envrcName)

\* Every script path of the tree; StorePaths are those the store commands
\* and file edits of Spec act on.
ScriptPaths == {PathH, PathT, PathTO}
StorePaths  == {PathT, PathTO}
TrustDirs   == {DirT}
\* The symbolic links of the tree: a link at the first path to the second.
Links       == {<<PathTO, PathT>>}

ByteOf(i) == <<"a", "b", "c", "d">>[i]
Contents  == {<<ByteOf(i)>> : i \in 1..NumContents}

NoFile == [kind |-> "none", bytes |-> <<>>, target |-> <<>>]
RegularFile(bytes) == [kind |-> "file", bytes |-> bytes, target |-> <<>>]
SymlinkTo(target) == [kind |-> "link", bytes |-> <<>>, target |-> target]

VARIABLES
  fs,        \* script path -> NoFile | RegularFile | SymlinkTo
  allowDir,  \* allow/<content-hash> -> payload
  denyDir,   \* deny/<path-hash> -> payload
  trustDir,  \* trust/<dirpath-hash> -> payload
  cfg,       \* configuration: whitelist prefixes
  shellEnv,  \* the environment of the interactive shell session
  stateDir,  \* state/<path-hash>.json -> saved DirState
  race,      \* the positions of a concurrent allow and deny command
  last       \* the last command run and what it returned

vars == <<fs, allowDir, denyDir, trustDir, cfg, shellEnv, stateDir, race, last>>

\* ------------------------------------------------------------------------
\* internal/envrc/rc.go
\* ------------------------------------------------------------------------

Sha256(input) == <<"sha256", input>>

\* os.Lstat succeeds.
Lstat(path) == path \in DOMAIN fs /\ fs[path].kind # "none"

RECURSIVE Resolve(_, _)
Resolve(path, fuel) ==
  IF path \notin DOMAIN fs \/ fs[path].kind = "none"
  THEN [ok |-> FALSE, path |-> path]
  ELSE IF fs[path].kind = "file" THEN [ok |-> TRUE, path |-> path]
  ELSE IF fuel = 0 THEN [ok |-> FALSE, path |-> path]
  ELSE Resolve(fs[path].target, fuel - 1)

\* filepath.EvalSymlinks: the file a path finally names; fails on a
\* dangling link and on a link loop.
EvalSymlinks(path) == Resolve(path, Cardinality(DOMAIN fs))

\* os.ReadFile of a resolved regular file.
ReadFile(path) == fs[path].bytes

\* Variant: the hash covers the bytes alone.
fileHash_ContentOnly(path) == Sha256(ReadFile(path))

\* Variant: the hash covers the path alone.
fileHash_PathOnly(path) == Sha256(path \o <<"\n">>)

fileHash(path) == Sha256(path \o <<"\n">> \o ReadFile(path))

NoRC == [Path |-> <<>>, Dir |-> <<>>, Exists |-> FALSE, ContentHash |-> <<>>]

\* NewRC returns (rc, err); err is TRUE when the link cannot be resolved.
NewRC(path) ==
  LET absPath == Abs(path) IN
  IF ~Lstat(absPath)
  THEN [err |-> FALSE,
        rc  |-> [Path |-> absPath, Dir |-> Dir(absPath),
                 Exists |-> FALSE, ContentHash |-> <<>>]]
  ELSE LET resolved == IF fs[absPath].kind = "link"
                       THEN EvalSymlinks(absPath)
                       ELSE [ok |-> TRUE, path |-> absPath]
       IN IF ~resolved.ok THEN [err |-> TRUE, rc |-> NoRC]
          ELSE [err |-> FALSE,
                rc  |-> [Path |-> absPath, Dir |-> Dir(absPath),
                         Exists |-> TRUE,
                         ContentHash |-> fileHash(resolved.path)]]

\* Variant: the path hash covers the file's bytes too.
PathHash_WithContent(path) ==
  LET absPath == Abs(path) IN
  Sha256(IF Lstat(absPath) /\ EvalSymlinks(absPath).ok
         THEN EvalSymlinks(absPath).path \o ReadFile(EvalSymlinks(absPath).path)
         ELSE absPath)

PathHash(path) ==
  LET absPath  == Abs(path)
      resolved == IF Lstat(absPath) THEN EvalSymlinks(absPath)
                  ELSE [ok |-> FALSE, path |-> absPath]
  IN Sha256(IF resolved.ok THEN resolved.path ELSE absPath)

\* ------------------------------------------------------------------------
\* internal/allow: the authorization store
\* ------------------------------------------------------------------------

\* os.WriteFile / os.Remove on one entry of a store directory.
WriteEntry(dir, name, payload) ==
  [n \in DOMAIN dir \cup {name} |-> IF n = name THEN payload ELSE dir[n]]

RemoveEntry(dir, name) == [n \in DOMAIN dir \ {name} |-> dir[n]]

\* os.Stat(filepath.Join(dir, name)) succeeds.
Stat(dir, name) == name \in DOMAIN dir

dirPathHash(path) == Sha256(Abs(path))

\* Variant: a plain string prefix, with no directory boundary.
isUnderPath_NoBoundary(child0, parent0) ==
  LET child  == Clean(child0)
      parent == Clean(parent0)
  IN Len(child) >= Len(parent) /\ SubSeq(child, 1, Len(parent)) = parent

isUnderPath(child0, parent0) ==
  LET child  == Clean(child0)
      parent == Clean(parent0)
      parentWithSep == parent \o <<Separator>>
  IN IF child = parent THEN TRUE
     ELSE Len(child) > Len(parentWithSep)
          /\ SubSeq(child, 1, Len(parentWithSep)) = parentWithSep

\* The payloads of the trust directory's entries.
ListTrustedSubtrees == {trustDir[n] : n \in DOMAIN trustDir}

IsTrustedSubtree(path) ==
  LET absPath == Abs(path) IN
  \E trusted \in ListTrustedSubtrees : isUnderPath(absPath, trusted)

\* Config.IsWhitelisted; c is the whitelist_prefix list.
IsWhitelisted(c, path) ==
  IF Len(c) = 0 THEN FALSE
  ELSE LET cleanPath == Clean(path) IN
       \E i \in 1..Len(c) :
         LET cleanPrefix == Clean(c[i]) IN
         /\ cleanPrefix # <<>>
         /\ HasPrefix(cleanPath, cleanPrefix)
         /\ LET rest == SubSeq(cleanPath, Len(cleanPrefix) + 1, Len(cleanPath))
            IN rest = <<>> \/ rest[1] = Separator

\* wl is <<>> for a nil Whitelister, else <<prefixes>>.
NilWhitelister == <<>>

\* Variant: the allow entry is consulted before the deny entry.
CheckWithWhitelist_AllowFirst(rc, wl) ==
  IF rc.ContentHash # <<>> /\ Stat(allowDir, rc.ContentHash) THEN "Allowed"
  ELSE IF Stat(denyDir, PathHash(rc.Path)) THEN "Denied"
  ELSE IF IsTrustedSubtree(rc.Path) THEN "Allowed"
  ELSE IF wl # NilWhitelister /\ IsWhitelisted(wl[1], rc.Path) THEN "Allowed"
  ELSE "NotAllowed"

CheckWithWhitelist(rc, wl) ==
  IF Stat(denyDir, PathHash(rc.Path)) THEN "Denied"
  ELSE IF rc.ContentHash # <<>> /\ Stat(allowDir, rc.ContentHash) THEN "Allowed"
  ELSE IF IsTrustedSubtree(rc.Path) THEN "Allowed"
  ELSE IF wl # NilWhitelister /\ IsWhitelisted(wl[1], rc.Path) THEN "Allowed"
  ELSE "NotAllowed"

Check(rc) == CheckWithWhitelist(rc, NilWhitelister)

\* The whitelister export and check pass to the store: the configuration.
CfgWhitelister == <<cfg.WhitelistPrefix>>

\* The filesystem call of a store command that fails, or "none": "write" is
\* os.MkdirAll or os.WriteFile, "remove" is os.Remove of an existing entry.
FailPoints == {"none", "write", "remove"}

\* The two filesystem changes of Store.Allow and of Store.Deny.
\* Variant: the allow entry is not written.
AllowWrite_Skip(rc) == allowDir

AllowWrite(rc) == WriteEntry(allowDir, rc.ContentHash, rc.Path)

\* Variant: the deny entry is not removed.
AllowRemove_Skip(rc) == denyDir

AllowRemove(rc) == RemoveEntry(denyDir, PathHash(rc.Path))

DenyWrite(rc) == WriteEntry(denyDir, PathHash(rc.Path), rc.Path)

\* Variant: every allow entry recorded for the path is removed.
DenyRemove_AllOfPath(rc) ==
  [n \in {m \in DOMAIN allowDir : allowDir[m] # rc.Path} |-> allowDir[n]]

DenyRemove(rc) ==
  IF rc.ContentHash # <<>> THEN RemoveEntry(allowDir, rc.ContentHash) ELSE allowDir

\* Variant: the deny entry is left in place.
AllowResult_KeepDeny(rc, fail) ==
  IF ~rc.Exists
  THEN [err |-> "cannot allow non-existent file", allow |-> allowDir, deny |-> denyDir]
  ELSE IF fail = "write"
  THEN [err |-> "write allow file", allow |-> allowDir, deny |-> denyDir]
  ELSE [err |-> "", allow |-> WriteEntry(allowDir, rc.ContentHash, rc.Path),
        deny |-> denyDir]

\* Variant: a failing write of the allow entry leaves a written entry.
AllowResult_WriteOnFail(rc, fail) ==
  IF ~rc.Exists
  THEN [err |-> "cannot allow non-existent file", allow |-> allowDir, deny |-> denyDir]
  ELSE IF fail = "write"
  THEN [err |-> "write allow file", allow |-> AllowWrite(rc), deny |-> denyDir]
  ELSE [err |-> "", allow |-> AllowWrite(rc), deny |-> AllowRemove(rc)]

\* Store.Allow: the error returned and the directories it leaves.
AllowResult(rc, fail) ==
  IF ~rc.Exists
  THEN [err |-> "cannot allow non-existent file", allow |-> allowDir, deny |-> denyDir]
  ELSE IF rc.ContentHash = <<>>
  THEN [err |-> "cannot allow file without content hash", allow |-> allowDir, deny |-> denyDir]
  ELSE IF fail = "write"
  THEN [err |-> "write allow file", allow |-> allowDir, deny |-> denyDir]
  ELSE LET written == AllowWrite(rc) IN
       IF fail = "remove" /\ Stat(denyDir, PathHash(rc.Path))
       THEN [err |-> "remove deny file", allow |-> written, deny |-> denyDir]
       ELSE [err |-> "", allow |-> written, deny |-> AllowRemove(rc)]

\* Variant: the allow entry is left in place.
DenyResult_KeepAllow(rc, fail) ==
  IF fail = "write"
  THEN [err |-> "write deny file", allow |-> allowDir, deny |-> denyDir]
  ELSE [err |-> "", allow |-> allowDir,
        deny |-> WriteEntry(denyDir, PathHash(rc.Path), rc.Path)]

\* Store.Deny.
DenyResult(rc, fail) ==
  IF fail = "write"
  THEN [err |-> "write deny file", allow |-> allowDir, deny |-> denyDir]
  ELSE LET written == DenyWrite(rc) IN
       IF fail = "remove" /\ rc.ContentHash # <<>> /\ Stat(allowDir, rc.ContentHash)
       THEN [err |-> "remove allow file", allow |-> allowDir, deny |-> written]
       ELSE [err |-> "", allow |-> DenyRemove(rc), deny |-> written]

\* Variant: only the allow entry is removed.
RevokeResult_KeepDeny(rc, failAllow, failDeny) ==
  [err |-> "",
   allow |-> IF rc.ContentHash # <<>>
             THEN RemoveEntry(allowDir, rc.ContentHash) ELSE allowDir,
   deny  |-> denyDir]

\* Store.Revoke; failAllow / failDeny: os.Remove of the existing entry
\* fails (a missing entry is fs.ErrNotExist, which Revoke ignores).
RevokeResult(rc, failAllow, failDeny) ==
  LET errA == rc.ContentHash # <<>> /\ failAllow /\ Stat(allowDir, rc.ContentHash)
      errD == failDeny /\ Stat(denyDir, PathHash(rc.Path))
  IN [err |-> IF errA /\ errD THEN "remove allow file; remove deny file"
              ELSE IF errA THEN "remove allow file"
              ELSE IF errD THEN "remove deny file"
              ELSE "",
      allow |-> IF rc.ContentHash # <<>> /\ ~errA
                THEN RemoveEntry(allowDir, rc.ContentHash) ELSE allowDir,
      deny  |-> IF ~errD THEN RemoveEntry(denyDir, PathHash(rc.Path)) ELSE denyDir]

\* `cascade allow <path>`: Store.Allow on the record built for path.
Allow(path, fail) ==
  LET new == NewRC(path) IN
  /\ ~new.err
  /\ LET r == AllowResult(new.rc, fail) IN
     /\ allowDir' = r.allow
     /\ denyDir' = r.deny
  /\ UNCHANGED <<fs, trustDir, cfg>>

\* `cascade deny <path>`: Store.Deny on the record built for path.
Deny(path, fail) ==
  LET new == NewRC(path) IN
  /\ ~new.err
  /\ LET r == DenyResult(new.rc, fail) IN
     /\ allowDir' = r.allow
     /\ denyDir' = r.deny
  /\ UNCHANGED <<fs, trustDir, cfg>>

Revoke(path, failAllow, failDeny) ==
  LET new == NewRC(path) IN
  /\ ~new.err
  /\ LET r == RevokeResult(new.rc, failAllow, failDeny) IN
     /\ allowDir' = r.allow
     /\ denyDir' = r.deny
  /\ UNCHANGED <<fs, trustDir, cfg>>

\* Store.TrustSubtree on an existing directory: the error returned and the
\* trust directory it leaves.
TrustResult(path, fail) ==
  LET absPath == Abs(path) IN
  IF fail = "write"
  THEN [err |-> "write trust file", trust |-> trustDir]
  ELSE [err |-> "", trust |-> WriteEntry(trustDir, dirPathHash(absPath), absPath)]

\* Store.UntrustSubtree.
UntrustResult(path, fail) ==
  LET trustFile == dirPathHash(Abs(path)) IN
  IF ~Stat(trustDir, trustFile)
  THEN [err |-> "subtree not trusted", trust |-> trustDir]
  ELSE IF fail = "remove"
  THEN [err |-> "remove trust file", trust |-> trustDir]
  ELSE [err |-> "", trust |-> RemoveEntry(trustDir, trustFile)]

TrustSubtree(path, fail) ==
  /\ trustDir' = TrustResult(path, fail).trust
  /\ UNCHANGED <<fs, allowDir, denyDir, cfg>>

UntrustSubtree(path, fail) ==
  /\ trustDir' = UntrustResult(path, fail).trust
  /\ UNCHANGED <<fs, allowDir, denyDir, cfg>>

\* ------------------------------------------------------------------------
\* internal/envrc/tree.go: chain discovery
\* ------------------------------------------------------------------------

\* The directories from target up to root, target first.
RECURSIVE WalkUp(_, _)
WalkUp(current, absRoot) ==
  IF current = absRoot THEN [ok |-> TRUE, dirs |-> <<current>>]
  ELSE LET parent == Dir(current) IN
       IF parent = current THEN [ok |-> FALSE, dirs |-> <<>>]
       ELSE LET up == WalkUp(parent, absRoot) IN
            [ok |-> up.ok, dirs |-> <<current>> \o up.dirs]

ReverseDirs(dirs) == [i \in 1..Len(dirs) |-> dirs[Len(dirs) + 1 - i]]

\* FindChain returns (chain, err). The directories of the tree are not
\* symbolic links: filepath.EvalSymlinks returns them unchanged.
FindChain(root, target) ==
  LET absRoot   == Abs(root)
      absTarget == Abs(target)
  IN IF ~HasPrefix(absTarget, absRoot) THEN [err |-> TRUE, chain |-> <<>>]
     ELSE LET up == WalkUp(absTarget, absRoot) IN
          IF ~up.ok THEN [err |-> TRUE, chain |-> <<>>]
          ELSE LET dirs == ReverseDirs(up.dirs)
                   rcs  == [i \in 1..Len(dirs) |-> NewRC(Join(dirs[i], envrcName))]
               IN IF \E i \in 1..Len(dirs) : rcs[i].err
                  THEN [err |-> TRUE, chain |-> <<>>]
                  ELSE [err |-> FALSE, chain |-> [i \in 1..Len(dirs) |-> rcs[i].rc]]

IsExisting(rc) == rc.Exists

ExistingOnly(chain) == SelectSeq(chain, IsExisting)

\* ------------------------------------------------------------------------
\* internal/env: environments and diffs
\* ------------------------------------------------------------------------

\* A Go map is a function; the empty string is the empty sequence.
MapSet(m, k, v) == [x \in DOMAIN m \cup {k} |-> IF x = k THEN v ELSE m[x]]

PWD             == <<"P", "W", "D">>
CASCADE_        == <<"C", "A", "S", "C", "A", "D", "E", "_">>
CASCADE_DIFF    == CASCADE_ \o <<"D", "I", "F", "F">>
CASCADE_DIR     == CASCADE_ \o <<"D", "I", "R">>
CASCADE_FILE    == CASCADE_ \o <<"F", "I", "L", "E">>
CASCADE_WATCHES == CASCADE_ \o <<"W", "A", "T", "C", "H", "E", "S">>

ignoredKeys ==
  {PWD, <<"O", "L", "D">> \o PWD, <<"S", "H", "L", "V", "L">>, <<"_">>,
   <<"T", "E", "R", "M", "_", "S", "E", "S", "S", "I", "O", "N", "_", "I", "D">>}

\* Variant: only the listed keys are ignored.
IgnoredEnv_NoPrefix(key) == key \in ignoredKeys

IgnoredEnv(key) == key \in ignoredKeys \/ HasPrefix(key, CASCADE_)

Filtered(e) == [k \in {x \in DOMAIN e : ~IgnoredEnv(x)} |-> e[k]]

\* A *EnvDiff is <<>> (nil) or <<diff>>.
NilDiff == <<>>

\* Variant: a key of e1 that e2 lacks is left out of the diff.
BuildEnvDiff_NoRemoved(e1, e2) ==
  LET f1 == Filtered(e1)
      f2 == Filtered(e2)
      keys == {k \in DOMAIN f1 : k \in DOMAIN f2 /\ f1[k] # f2[k]}
              \cup {k \in DOMAIN f2 : k \notin DOMAIN f1}
  IN << [Prev |-> [k \in keys |-> IF k \in DOMAIN f1 THEN f1[k] ELSE <<>>],
         Next |-> [k \in keys |-> f2[k]]] >>

BuildEnvDiff(e1, e2) ==
  LET f1 == Filtered(e1)
      f2 == Filtered(e2)
      keys == {k \in DOMAIN f1 : k \notin DOMAIN f2 \/ f1[k] # f2[k]}
              \cup {k \in DOMAIN f2 : k \notin DOMAIN f1}
  IN << [Prev |-> [k \in keys |-> IF k \in DOMAIN f1 THEN f1[k] ELSE <<>>],
         Next |-> [k \in keys |-> IF k \in DOMAIN f2 THEN f2[k] ELSE <<>>]] >>

Patch(d, env) ==
  IF d = NilDiff THEN env
  ELSE LET next == d[1].Next IN
       [k \in (DOMAIN env \cup DOMAIN next) \ {x \in DOMAIN next : next[x] = <<>>} |->
          IF k \in DOMAIN next THEN next[k] ELSE env[k]]

\* Variant: the reverse of a diff is the diff itself.
Reverse_Same(d) == IF d = NilDiff THEN << [Prev |-> <<>>, Next |-> <<>>] >> ELSE d

Reverse(d) ==
  IF d = NilDiff THEN << [Prev |-> <<>>, Next |-> <<>>] >>
  ELSE << [Prev |-> d[1].Next, Next |-> d[1].Prev] >>

IsEmpty(d) ==
  IF d = NilDiff THEN TRUE
  ELSE DOMAIN d[1].Next = {} /\ DOMAIN d[1].Prev = {}

\* The gzenv codec: an empty diff encodes to the empty string, any other to
\* a string that decodes to it.
Marshal(d) == IF IsEmpty(d) THEN <<>> ELSE <<"gzenv", d[1]>>

Unmarshal(gzenv) == <<gzenv[2]>>

\* NewWatchList(paths).Serialize(); the modification times are left out.
SerializeWatches(paths) == IF paths = <<>> THEN <<>> ELSE <<"gzenv", paths>>

\* ------------------------------------------------------------------------
\* internal/state: the persistent state store
\* ------------------------------------------------------------------------

hashPath(absPath) == Sha256(absPath)

Save(dir, rcPath, contentHash, diff) ==
  WriteEntry(dir, hashPath(Abs(rcPath)),
             [Path |-> Abs(rcPath), ContentHash |-> contentHash, Diff |-> diff])

\* Load returns <<>> (nil) or <<DirState>>.
Load(dir, rcPath) ==
  IF Stat(dir, hashPath(Abs(rcPath))) THEN <<dir[hashPath(Abs(rcPath))]>> ELSE <<>>

Delete(dir, rcPath) == RemoveEntry(dir, hashPath(Abs(rcPath)))

\* ------------------------------------------------------------------------
\* internal/eval: evaluating one script
\* ------------------------------------------------------------------------

\* The scripts of the model: the script whose bytes are the one character x
\* is `export x="$CASCADE_DIR"`.
ScriptVar(bytes) == bytes

ScriptValue(env) == env[CASCADE_DIR]

\* Variant: a script does not reassign a variable its input environment
\* already holds.
Evaluate_KeepExisting(rc, inputEnv) ==
  LET bytes == ReadFile(EvalSymlinks(rc.Path).path)
      env   == MapSet(inputEnv, CASCADE_DIR, rc.Dir)
  IN [Env |-> IF ScriptVar(bytes) \in DOMAIN env THEN env
              ELSE MapSet(env, ScriptVar(bytes), ScriptValue(env)),
      ExtraWatches |-> <<>>]

\* Evaluator.Evaluate without a cache: bash sources the script with
\* CASCADE_DIR set and dumps its environment.
Evaluate(rc, inputEnv) ==
  LET bytes == ReadFile(EvalSymlinks(rc.Path).path)
      env   == MapSet(inputEnv, CASCADE_DIR, rc.Dir)
  IN [Env |-> MapSet(env, ScriptVar(bytes), ScriptValue(env)),
      ExtraWatches |-> <<>>]

\* ------------------------------------------------------------------------
\* internal/cmd/export.go: the export orchestrator
\* ------------------------------------------------------------------------

\* cfg.GetCascadeRoot(): the home directory.
Home == DirH

\* A ShellExport maps a key to <<>> (unset) or <<value>> (set).
CascadeVars == {CASCADE_DIFF, CASCADE_DIR, CASCADE_FILE, CASCADE_WATCHES}

DiffExport(next) ==
  [k \in DOMAIN next |-> IF next[k] = <<>> THEN <<>> ELSE <<next[k]>>]

RECURSIVE DeleteAll(_, _)
DeleteAll(dir, paths) ==
  IF paths = <<>> THEN dir ELSE DeleteAll(Delete(dir, Head(paths)), Tail(paths))

\* Variant: the revert leaves the session variables set.
revertAndCleanup_KeepSession(diff, hasStore, deniedPaths, state) ==
  [stdout |-> DiffExport(Reverse(diff)[1].Next),
   stderr |-> <<>>,
   state  |-> IF hasStore THEN DeleteAll(state, deniedPaths) ELSE state,
   reverted |-> TRUE, revertedDiff |-> diff]

\* Variant: the state files of the denied scripts are kept.
revertAndCleanup_KeepState(diff, hasStore, deniedPaths, state) ==
  [stdout |-> [k \in DOMAIN DiffExport(Reverse(diff)[1].Next) \cup CascadeVars |->
                 IF k \in CascadeVars THEN <<>> ELSE DiffExport(Reverse(diff)[1].Next)[k]],
   stderr |-> <<>>,
   state  |-> state,
   reverted |-> TRUE, revertedDiff |-> diff]

\* revertAndCleanup with log_env_diff off; hasStore: stateStore is not nil.
revertAndCleanup(diff, hasStore, deniedPaths, state) ==
  LET reversed == Reverse(diff)
      export   == DiffExport(reversed[1].Next)
  IN [stdout |-> [k \in DOMAIN export \cup CascadeVars |->
                    IF k \in CascadeVars THEN <<>> ELSE export[k]],
      stderr |-> <<>>,
      state  |-> IF hasStore THEN DeleteAll(state, deniedPaths) ELSE state,
      reverted |-> TRUE, revertedDiff |-> diff]

\* The denied paths whose saved state holds a diff.
RECURSIVE SavedStates(_, _)
SavedStates(state, paths) ==
  IF paths = <<>> THEN <<>>
  ELSE LET savedState == Load(state, Head(paths)) IN
       (IF savedState # <<>> /\ savedState[1].Diff # NilDiff
        THEN <<savedState[1]>> ELSE <<>>)
       \o SavedStates(state, Tail(paths))

\* Variant: without the fall-back to the saved state of the denied scripts.
handleNoEnvrc_SessionOnly(prevDiff, hasStore, deniedPaths, state) ==
  IF prevDiff # NilDiff /\ ~IsEmpty(prevDiff)
  THEN revertAndCleanup(prevDiff, hasStore, deniedPaths, state)
  ELSE [stdout |-> <<>>,
        stderr |-> IF Len(deniedPaths) > 0
                   THEN << <<"warning: cannot determine variables set by denied files", <<>> >>,
                           <<"warning: environment may contain stale variables", <<>> >> >>
                   ELSE <<>>,
        state  |-> state,
        reverted |-> FALSE, revertedDiff |-> NilDiff]

handleNoEnvrc(prevDiff, hasStore, deniedPaths, state) ==
  IF prevDiff # NilDiff /\ ~IsEmpty(prevDiff)
  THEN revertAndCleanup(prevDiff, hasStore, deniedPaths, state)
  ELSE IF hasStore /\ Len(deniedPaths) > 0 /\ SavedStates(state, deniedPaths) # <<>>
  THEN revertAndCleanup(SavedStates(state, deniedPaths)[1].Diff, hasStore,
                        deniedPaths, state)
  ELSE [stdout |-> <<>>,
        stderr |-> IF Len(deniedPaths) > 0
                   THEN << <<"warning: cannot determine variables set by denied files", <<>> >>,
                           <<"warning: environment may contain stale variables", <<>> >> >>
                   ELSE <<>>,
        state  |-> state,
        reverted |-> FALSE, revertedDiff |-> NilDiff]

\* A stderr line is <<what, path>>.
RECURSIVE Lines(_, _)
Lines(what, rcs) ==
  IF rcs = <<>> THEN <<>> ELSE << <<what, Head(rcs).Path>> >> \o Lines(what, Tail(rcs))

RECURSIVE Paths(_)
Paths(rcs) == IF rcs = <<>> THEN <<>> ELSE <<Head(rcs).Path>> \o Paths(Tail(rcs))

\* Variant: every script that is not denied counts as allowed.
IsAllowed_UnlessDenied(rc) == CheckWithWhitelist(rc, CfgWhitelister) # "Denied"

IsAllowed(rc) == CheckWithWhitelist(rc, CfgWhitelister) = "Allowed"

IsNotAllowed(rc) == CheckWithWhitelist(rc, CfgWhitelister) = "NotAllowed"

\* Variant: a script under a trusted subtree is never classified as denied.
IsDenied_UnlessTrusted(rc) ==
  ~IsTrustedSubtree(rc.Path) /\ CheckWithWhitelist(rc, CfgWhitelister) = "Denied"

IsDenied(rc) == CheckWithWhitelist(rc, CfgWhitelister) = "Denied"

\* The evaluation loop: (workingEnv, evaluated, failed), failed being the
\* script whose evaluation returned an error; failAt: the position among the
\* remaining scripts of the one whose evaluation fails, 0 when none does.
\* Variant: a failed evaluation is reported and the loop goes on with the
\* next script.
RECURSIVE EvaluateAll_GoOn(_, _, _)
EvaluateAll_GoOn(allowed, workingEnv, failAt) ==
  IF allowed = <<>> THEN [env |-> workingEnv, evaluated |-> <<>>, failed |-> <<>>]
  ELSE LET result == IF failAt = 1 THEN [Env |-> workingEnv] ELSE Evaluate(Head(allowed), workingEnv)
           rest   == EvaluateAll_GoOn(Tail(allowed), result.Env, IF failAt > 1 THEN failAt - 1 ELSE 0)
       IN [env |-> rest.env,
           evaluated |-> (IF failAt = 1 THEN <<>> ELSE <<Head(allowed)>>) \o rest.evaluated,
           failed |-> (IF failAt = 1 THEN <<Head(allowed)>> ELSE <<>>) \o rest.failed]

RECURSIVE EvaluateAll(_, _, _)
EvaluateAll(allowed, workingEnv, failAt) ==
  IF allowed = <<>> THEN [env |-> workingEnv, evaluated |-> <<>>, failed |-> <<>>]
  ELSE IF failAt = 1
  THEN [env |-> workingEnv, evaluated |-> <<>>, failed |-> <<Head(allowed)>>]
  ELSE LET result == Evaluate(Head(allowed), workingEnv)
           rest   == EvaluateAll(Tail(allowed), result.Env, IF failAt > 1 THEN failAt - 1 ELSE 0)
       IN [env |-> rest.env, evaluated |-> <<Head(allowed)>> \o rest.evaluated,
           failed |-> rest.failed]

\* What a run of `cascade export --no-cache` reads, prints and saves, with
\* log_env_diff off: the scripts it found and how it classified them, the
\* scripts it evaluated, its stderr lines, the ShellExport it printed, the
\* state directory it leaves, and whether it took the revert path.
RunRecord(prevDiff, existing, allowed, denied, notAllowed, evaluated, stderr, h, revertPath) ==
  [op |-> "export", err |-> "", prevDiff |-> prevDiff,
   existing |-> Paths(existing), allowed |-> Paths(allowed),
   denied |-> Paths(denied), notAllowed |-> Paths(notAllowed),
   evaluated |-> Paths(evaluated),
   stderr |-> stderr \o h.stderr, stdout |-> h.stdout, state |-> h.state,
   revertPath |-> revertPath, reverted |-> h.reverted,
   revertedDiff |-> h.revertedDiff]

\* The ShellExport of a run that evaluated scripts (lines 216-249).
BuildExport(newDiff, lastRC, watchStr) ==
  LET export1 == MapSet(MapSet(MapSet(DiffExport(newDiff[1].Next),
                                      CASCADE_DIFF, <<Marshal(newDiff)>>),
                               CASCADE_DIR, <<lastRC.Dir>>),
                        CASCADE_FILE, <<lastRC.Path>>)
  IN IF watchStr # <<>>
     THEN MapSet(export1, CASCADE_WATCHES, <<watchStr>>)
     ELSE export1

\* runExport after the evaluation loop (lines 175-266).
runExportEvaluated(prevDiff, existing, allowed, denied, notAllowed, warned, loop, newDiff, lastRC, state) ==
  IF loop.failed # <<>>
  THEN RunRecord(prevDiff, existing, allowed, denied, notAllowed, loop.evaluated,
                 warned \o Lines("error evaluating", loop.failed),
                 handleNoEnvrc(prevDiff, FALSE, <<>>, state), TRUE)
  ELSE RunRecord(prevDiff, existing, allowed, denied, notAllowed, loop.evaluated, warned,
                 [stdout |-> BuildExport(newDiff, lastRC, SerializeWatches(Paths(allowed))),
                  stderr |-> <<>>,
                  state |-> Save(state, lastRC.Path, lastRC.ContentHash, newDiff),
                  reverted |-> FALSE, revertedDiff |-> NilDiff],
                 FALSE)

\* Variant: the session names the first allowed script.
runExportLoop_FirstRC(prevDiff, baseEnv, existing, allowed, denied, notAllowed, warned, loop, state) ==
  runExportEvaluated(prevDiff, existing, allowed, denied, notAllowed, warned, loop,
                     BuildEnvDiff(baseEnv, loop.env), allowed[1], state)

\* runExport after the evaluation loop, given the loop's result.
runExportLoop(prevDiff, baseEnv, existing, allowed, denied, notAllowed, warned, loop, state) ==
  runExportEvaluated(prevDiff, existing, allowed, denied, notAllowed, warned, loop,
                     BuildEnvDiff(baseEnv, loop.env), allowed[Len(allowed)], state)

\* runExport after the classification of the existing scripts (lines 117-266).
runExportClassified(prevDiff, baseEnv, existing, allowed, notAllowed, denied, warned, state, failAt) ==
  IF Len(denied) > 0
  THEN RunRecord(prevDiff, existing, allowed, denied, notAllowed, <<>>,
                 Lines("is blocked", denied),
                 handleNoEnvrc(prevDiff, TRUE, Paths(denied), state), TRUE)
  ELSE IF Len(allowed) = 0
  THEN RunRecord(prevDiff, existing, allowed, denied, notAllowed, <<>>, warned,
                 handleNoEnvrc(prevDiff, FALSE, <<>>, state), TRUE)
  ELSE runExportLoop(prevDiff, baseEnv, existing, allowed, denied, notAllowed, warned,
                     EvaluateAll(allowed, baseEnv, failAt), state)

\* runExport after ExistingOnly (lines 90-266).
runExportExisting(prevDiff, baseEnv, existing, notAllowed, state, failAt) ==
  IF Len(existing) = 0
  THEN RunRecord(prevDiff, existing, <<>>, <<>>, <<>>, <<>>, <<>>,
                 handleNoEnvrc(prevDiff, FALSE, <<>>, state), TRUE)
  ELSE runExportClassified(prevDiff, baseEnv, existing,
                           SelectSeq(existing, IsAllowed), notAllowed,
                           SelectSeq(existing, IsDenied),
                           Lines("is not allowed", notAllowed), state, failAt)

\* runExport after the chain was found (lines 79-266).
runExportChain(prevDiff, baseEnv, found, existing, state, failAt) ==
  IF found.err
  THEN [op |-> "export", err |-> "find envrc chain", prevDiff |-> prevDiff,
        existing |-> <<>>, allowed |-> <<>>, denied |-> <<>>, notAllowed |-> <<>>,
        evaluated |-> <<>>, stderr |-> <<>>, stdout |-> <<>>, state |-> state,
        revertPath |-> FALSE, reverted |-> FALSE, revertedDiff |-> NilDiff]
  ELSE runExportExisting(prevDiff, baseEnv, existing,
                         SelectSeq(existing, IsNotAllowed), state, failAt)

\* The chain from home to cwd, or of cwd alone when cwd is not under home.
FindChainOrCwd(first, cwd) == IF first.err THEN FindChain(cwd, cwd) ELSE first

\* The baseline a run starts its evaluation from and builds its diff
\* against (lines 166-172, 190-195).
Baseline(prevDiff, filtered) ==
  IF prevDiff # NilDiff THEN Patch(Reverse(prevDiff), filtered) ELSE filtered

\* runExport once CASCADE_DIFF is decoded (lines 65-266); the record of the
\* run holds its baseline.
runExportFrom(prevDiff, filtered, found, state, failAt) ==
  [baseEnv |-> Baseline(prevDiff, filtered)] @@
  runExportChain(prevDiff, Baseline(prevDiff, filtered), found,
                 ExistingOnly(found.chain), state, failAt)

\* The previous diff carried by CASCADE_DIFF (lines 53-63).
PrevDiff(prevDiffStr) == IF prevDiffStr # <<>> THEN Unmarshal(prevDiffStr) ELSE NilDiff

runExport(currentEnv, state, failAt) ==
  runExportFrom(PrevDiff(IF CASCADE_DIFF \in DOMAIN currentEnv
                         THEN currentEnv[CASCADE_DIFF] ELSE <<>>),
                Filtered(currentEnv),
                FindChainOrCwd(FindChain(Home, currentEnv[PWD]), currentEnv[PWD]),
                state, failAt)

\* The shell evaluating the transcript of a ShellExport: `export K="V";`
\* and `unset K;` lines.
EvalExport(env, export) ==
  [k \in (DOMAIN env \cup DOMAIN export) \ {x \in DOMAIN export : export[x] = <<>>} |->
     IF k \in DOMAIN export THEN export[k][1] ELSE env[k]]

\* The step before was an export run in directory cwd that found a denied
\* script and reverted, or one that followed such a run and found a denied
\* script.
AfterDeniedRevert(prev, cwd) ==
  /\ prev.op = "export" /\ prev.err = ""
  /\ shellEnv[PWD] = cwd
  /\ prev.denied # <<>>
  /\ prev.reverted \/ prev.afterDeniedRevert

\* The shell hook in directory cwd: eval "$(cascade export zsh)".
HookRun(currentEnv, run) ==
  /\ shellEnv' = EvalExport(currentEnv, run.stdout)
  /\ stateDir' = run.state
  /\ last' = [afterDeniedRevert |-> AfterDeniedRevert(last, currentEnv[PWD])] @@ run
  /\ UNCHANGED <<fs, allowDir, denyDir, trustDir, cfg, race>>

\* Variant: a run writes an allow entry for the first script it evaluated.
Hook_AllowsEvaluated(cwd, failAt) ==
  /\ shellEnv' = EvalExport(MapSet(shellEnv, PWD, cwd), runExport(MapSet(shellEnv, PWD, cwd), stateDir, failAt).stdout)
  /\ stateDir' = runExport(MapSet(shellEnv, PWD, cwd), stateDir, failAt).state
  /\ last' = [afterDeniedRevert |-> AfterDeniedRevert(last, cwd)] @@ runExport(MapSet(shellEnv, PWD, cwd), stateDir, failAt)
  /\ allowDir' = IF runExport(MapSet(shellEnv, PWD, cwd), stateDir, failAt).evaluated # <<>>
                 THEN AllowWrite(NewRC(runExport(MapSet(shellEnv, PWD, cwd), stateDir, failAt).evaluated[1]).rc)
                 ELSE allowDir
  /\ UNCHANGED <<fs, denyDir, trustDir, cfg, race>>

Hook(cwd, failAt) ==
  HookRun(MapSet(shellEnv, PWD, cwd),
          runExport(MapSet(shellEnv, PWD, cwd), stateDir, failAt))

\* The environment of a new shell session, started in the home directory:
\* the variable of the first script has a value no script gives it, the
\* variable of the second already has the value the project script gives it.
BaseEnv == [k \in {PWD, ScriptVar(<<ByteOf(1)>>), ScriptVar(<<ByteOf(2)>>)} |->
              IF k = PWD THEN Home
              ELSE IF k = ScriptVar(<<ByteOf(1)>>) THEN <<"0">> ELSE DirT]

\* The same, and the one in which the variable of the first script is unset.
BaseEnvs ==
  {BaseEnv, [k \in DOMAIN BaseEnv \ {ScriptVar(<<ByteOf(1)>>)} |-> BaseEnv[k]]}

\* ------------------------------------------------------------------------
\* The user editing the file tree
\* ------------------------------------------------------------------------

\* Write bytes to a regular file, creating it if absent.
WriteScript(path, bytes) ==
  /\ fs[path].kind # "link"
  /\ fs[path] # RegularFile(bytes)
  /\ fs' = [fs EXCEPT ![path] = RegularFile(bytes)]
  /\ UNCHANGED <<allowDir, denyDir, trustDir, cfg>>

RemoveScript(path) ==
  /\ fs[path].kind # "none"
  /\ fs' = [fs EXCEPT ![path] = NoFile]
  /\ UNCHANGED <<allowDir, denyDir, trustDir, cfg>>

SymlinkScript(path, target) ==
  /\ fs[path].kind = "none"
  /\ target # path
  /\ fs' = [fs EXCEPT ![path] = SymlinkTo(target)]
  /\ UNCHANGED <<allowDir, denyDir, trustDir, cfg>>

\* ------------------------------------------------------------------------
\* Spec: the store commands and file edits on two sibling scripts, one of
\* which may be a symbolic link to the other
\* ------------------------------------------------------------------------

\* The script PathT is Denied.
DeniedT == Check(NewRC(PathT).rc) = "Denied"

\* What a command was called with, the entries of its record that existed
\* when it was called, whether PathT was Denied when it was called, and the
\* error it returned ("" is nil).
EntriesOf(rc) ==
  [allow |-> rc.ContentHash # <<>> /\ Stat(allowDir, rc.ContentHash),
   deny  |-> rc.Path # <<>> /\ Stat(denyDir, PathHash(rc.Path))]

Ret(op, path, rc, err) ==
  [op |-> op, path |-> path, rc |-> rc, pre |-> EntriesOf(rc),
   wasDenied |-> DeniedT, err |-> err]

NoRet == Ret("init", <<>>, NoRC, "")

\* No allow and no deny command is running; allow2 is a second `cascade
\* allow` process.
Idle == [at |-> "idle", rc |-> NoRC, err |-> ""]

NoRace == [allow |-> Idle, allow2 |-> Idle, deny |-> Idle, finished |-> <<>>]

\* The cleaned whitelist prefix is DirT; the setting carries a trailing
\* separator.
WhitelistT == <<DirT \o <<Separator>>>>

Init ==
  /\ fs = [p \in ScriptPaths |-> NoFile]
  /\ allowDir = <<>>
  /\ denyDir = <<>>
  /\ trustDir = <<>>
  /\ cfg = [WhitelistPrefix |-> WhitelistT]
  /\ shellEnv = BaseEnv
  /\ stateDir = <<>>
  /\ race = NoRace
  /\ last = NoRet

DoAllow ==
  /\ \E p \in StorePaths, f \in FailPoints : Allow(p, f)
  /\ UNCHANGED <<shellEnv, stateDir, race, last>>

DoDeny ==
  /\ \E p \in StorePaths, f \in FailPoints : Deny(p, f)
  /\ UNCHANGED <<shellEnv, stateDir, race, last>>

DoRevoke ==
  /\ \E p \in StorePaths, fa \in BOOLEAN, fd \in BOOLEAN : Revoke(p, fa, fd)
  /\ UNCHANGED <<shellEnv, stateDir, race, last>>

DoTrust ==
  /\ \E d \in TrustDirs, f \in {"none", "write"} : TrustSubtree(d, f)
  /\ UNCHANGED <<shellEnv, stateDir, race, last>>

DoUntrust ==
  /\ \E d \in TrustDirs, f \in {"none", "remove"} : UntrustSubtree(d, f)
  /\ UNCHANGED <<shellEnv, stateDir, race, last>>

DoWrite ==
  /\ \E p \in StorePaths, b \in Contents : WriteScript(p, b)
  /\ UNCHANGED <<shellEnv, stateDir, race, last>>

DoRemove ==
  /\ \E p \in StorePaths : RemoveScript(p)
  /\ UNCHANGED <<shellEnv, stateDir, race, last>>

DoSymlink ==
  /\ \E l \in Links : SymlinkScript(l[1], l[2])
  /\ UNCHANGED <<shellEnv, stateDir, race, last>>

Next ==
  \/ DoAllow
  \/ DoDeny
  \/ DoRevoke
  \/ DoTrust
  \/ DoUntrust
  \/ DoWrite
  \/ DoRemove
  \/ DoSymlink

Spec == Init /\ [][Next]_vars

\* ------------------------------------------------------------------------
\* SpecCmd: the store commands on one script, each recording what it was
\* called with and what it returned
\* ------------------------------------------------------------------------

CmdTrustDirs == {DirH, DirT}

InitCmd ==
  /\ fs = [p \in ScriptPaths |-> NoFile]
  /\ allowDir = <<>>
  /\ denyDir = <<>>
  /\ trustDir = <<>>
  /\ cfg \in {[WhitelistPrefix |-> w] : w \in {<<>>, WhitelistT}}
  /\ shellEnv = BaseEnv
  /\ stateDir = <<>>
  /\ race = NoRace
  /\ last = NoRet

CmdAllow ==
  \E f \in FailPoints :
    /\ Allow(PathT, f)
    /\ last' = Ret("Allow", PathT, NewRC(PathT).rc, AllowResult(NewRC(PathT).rc, f).err)
    /\ UNCHANGED <<shellEnv, stateDir, race>>

CmdDeny ==
  \E f \in FailPoints :
    /\ Deny(PathT, f)
    /\ last' = Ret("Deny", PathT, NewRC(PathT).rc, DenyResult(NewRC(PathT).rc, f).err)
    /\ UNCHANGED <<shellEnv, stateDir, race>>

CmdRevoke ==
  \E fa \in BOOLEAN, fd \in BOOLEAN :
    /\ Revoke(PathT, fa, fd)
    /\ last' = Ret("Revoke", PathT, NewRC(PathT).rc,
                   RevokeResult(NewRC(PathT).rc, fa, fd).err)
    /\ UNCHANGED <<shellEnv, stateDir, race>>

CmdTrust ==
  \E d \in CmdTrustDirs, f \in {"none", "write"} :
    /\ TrustSubtree(d, f)
    /\ last' = Ret("TrustSubtree", Abs(d), NoRC, TrustResult(d, f).err)
    /\ UNCHANGED <<shellEnv, stateDir, race>>

CmdUntrust ==
  \E d \in CmdTrustDirs, f \in {"none", "remove"} :
    /\ UntrustSubtree(d, f)
    /\ last' = Ret("UntrustSubtree", Abs(d), NoRC, UntrustResult(d, f).err)
    /\ UNCHANGED <<shellEnv, stateDir, race>>

CmdWrite ==
  /\ \E b \in Contents : WriteScript(PathT, b)
  /\ last' = Ret("WriteScript", PathT, NoRC, "")
  /\ UNCHANGED <<shellEnv, stateDir, race>>

CmdRemove ==
  /\ RemoveScript(PathT)
  /\ last' = Ret("RemoveScript", PathT, NoRC, "")
  /\ UNCHANGED <<shellEnv, stateDir, race>>

NextCmd ==
  \/ CmdAllow
  \/ CmdDeny
  \/ CmdRevoke
  \/ CmdTrust
  \/ CmdUntrust
  \/ CmdWrite
  \/ CmdRemove

SpecCmd == InitCmd /\ [][NextCmd]_vars

\* ------------------------------------------------------------------------
\* SpecExport: shell sessions running the export hook in the home directory,
\* in a project directory below it and outside the home directory, while the
\* scripts are written, allowed, denied and trusted
\* ------------------------------------------------------------------------

ExportPaths == {PathH, PathT}

\* What last holds after a command other than export.
NoRun == [op |-> "none"]

InitExport ==
  /\ fs = [p \in ScriptPaths |-> IF p = PathH THEN RegularFile(<<ByteOf(1)>>) ELSE NoFile]
  /\ allowDir = <<>>
  /\ denyDir = <<>>
  /\ trustDir = <<>>
  /\ cfg = [WhitelistPrefix |-> <<>>]
  /\ shellEnv \in BaseEnvs
  /\ stateDir = <<>>
  /\ race = NoRace
  /\ last = NoRet

ExpHook ==
  \E cwd \in {DirT, <<Separator>>}, failAt \in 0..Cardinality(ExportPaths) : Hook(cwd, failAt)

ExpAllow ==
  \E p \in ExportPaths :
    /\ Allow(p, "none")
    /\ last' = NoRun
    /\ UNCHANGED <<shellEnv, stateDir, race>>

ExpDeny ==
  \E p \in ExportPaths :
    /\ Deny(p, "none")
    /\ last' = NoRun
    /\ UNCHANGED <<shellEnv, stateDir, race>>

ExpTrust ==
  /\ TrustSubtree(DirT, "none")
  /\ last' = NoRun
  /\ UNCHANGED <<shellEnv, stateDir, race>>

ExpWrite ==
  \E b \in Contents :
    /\ WriteScript(PathT, b)
    /\ last' = NoRun
    /\ UNCHANGED <<shellEnv, stateDir, race>>

NextExport ==
  \/ ExpHook
  \/ ExpAllow
  \/ ExpDeny
  \/ ExpTrust
  \/ ExpWrite

SpecExport == InitExport /\ [][NextExport]_vars

\* ------------------------------------------------------------------------
\* SpecRace: `cascade allow` and `cascade deny` on the script PathT running
\* concurrently, each one filesystem call at a time
\* ------------------------------------------------------------------------

\* The command builds its record; Store.Allow returns at once on a script
\* that does not exist.
AllowStart ==
  /\ race.allow.at = "idle"
  /\ ~NewRC(PathT).err
  /\ LET rc == NewRC(PathT).rc IN
     race' = IF ~rc.Exists \/ rc.ContentHash = <<>>
             THEN [race EXCEPT !.allow = [at |-> "done", rc |-> rc,
                                          err |-> "cannot allow non-existent file"],
                               !.finished = Append(@, "allow")]
             ELSE [race EXCEPT !.allow = [at |-> "built", rc |-> rc, err |-> ""]]
  /\ UNCHANGED <<fs, allowDir, denyDir, trustDir, cfg, shellEnv, stateDir, last>>

\* os.WriteFile of the allow entry.
AllowWriteStep ==
  /\ race.allow.at = "built"
  /\ allowDir' = AllowWrite(race.allow.rc)
  /\ race' = [race EXCEPT !.allow.at = "written"]
  /\ UNCHANGED <<fs, denyDir, trustDir, cfg, shellEnv, stateDir, last>>

\* os.Remove of the deny entry; Store.Allow returns nil.
AllowRemoveStep ==
  /\ race.allow.at = "written"
  /\ denyDir' = AllowRemove(race.allow.rc)
  /\ race' = [race EXCEPT !.allow.at = "done", !.finished = Append(@, "allow")]
  /\ UNCHANGED <<fs, allowDir, trustDir, cfg, shellEnv, stateDir, last>>

DenyStart ==
  /\ race.deny.at = "idle"
  /\ ~NewRC(PathT).err
  /\ race' = [race EXCEPT !.deny = [at |-> "built", rc |-> NewRC(PathT).rc, err |-> ""]]
  /\ UNCHANGED <<fs, allowDir, denyDir, trustDir, cfg, shellEnv, stateDir, last>>

\* os.WriteFile of the deny entry.
DenyWriteStep ==
  /\ race.deny.at = "built"
  /\ denyDir' = DenyWrite(race.deny.rc)
  /\ race' = [race EXCEPT !.deny.at = "written"]
  /\ UNCHANGED <<fs, allowDir, trustDir, cfg, shellEnv, stateDir, last>>

\* os.Remove of the allow entry; Store.Deny returns nil.
DenyRemoveStep ==
  /\ race.deny.at = "written"
  /\ allowDir' = DenyRemove(race.deny.rc)
  /\ race' = [race EXCEPT !.deny.at = "done", !.finished = Append(@, "deny")]
  /\ UNCHANGED <<fs, denyDir, trustDir, cfg, shellEnv, stateDir, last>>

\* Both commands have returned; the next pair may start.
RaceOver ==
  /\ race.allow.at = "done" /\ race.deny.at = "done"
  /\ race' = NoRace
  /\ UNCHANGED <<fs, allowDir, denyDir, trustDir, cfg, shellEnv, stateDir, last>>

\* Between two races the script is rewritten, or its directory trusted.
RaceWrite ==
  /\ race = NoRace
  /\ \E b \in Contents : WriteScript(PathT, b)
  /\ UNCHANGED <<shellEnv, stateDir, race, last>>

RaceTrust ==
  /\ race = NoRace
  /\ DirT \notin ListTrustedSubtrees
  /\ TrustSubtree(DirT, "none")
  /\ UNCHANGED <<shellEnv, stateDir, race, last>>

NextRace ==
  \/ AllowStart
  \/ AllowWriteStep
  \/ AllowRemoveStep
  \/ DenyStart
  \/ DenyWriteStep
  \/ DenyRemoveStep
  \/ RaceOver
  \/ RaceWrite
  \/ RaceTrust

SpecRace == InitExport /\ [][NextRace]_vars

\* ------------------------------------------------------------------------
\* SpecAllows: two `cascade allow` processes on the script PathT running
\* concurrently, each one filesystem call at a time; os.WriteFile is an
\* open that truncates followed by a write
\* ------------------------------------------------------------------------

Allowers == {"allow", "allow2"}

\* The command builds its record; Store.Allow returns at once on a script
\* that does not exist.
AllowsStart ==
  \E w \in Allowers :
    /\ race[w].at = "idle"
    /\ ~NewRC(PathT).err
    /\ LET rc == NewRC(PathT).rc IN
       race' = IF ~rc.Exists \/ rc.ContentHash = <<>>
               THEN [race EXCEPT ![w] = [at |-> "done", rc |-> rc,
                                         err |-> "cannot allow non-existent file"],
                                 !.finished = Append(@, w)]
               ELSE [race EXCEPT ![w] = [at |-> "built", rc |-> rc, err |-> ""]]
    /\ UNCHANGED <<fs, allowDir, denyDir, trustDir, cfg, shellEnv, stateDir, last>>

\* os.WriteFile opens the allow entry with O_CREATE|O_TRUNC: it exists and
\* is empty.
AllowsOpen ==
  \E w \in Allowers :
    /\ race[w].at = "built"
    /\ allowDir' = WriteEntry(allowDir, race[w].rc.ContentHash, <<>>)
    /\ race' = [race EXCEPT ![w].at = "opened"]
    /\ UNCHANGED <<fs, denyDir, trustDir, cfg, shellEnv, stateDir, last>>

\* os.WriteFile writes the path at offset 0.
AllowsWrite ==
  \E w \in Allowers :
    /\ race[w].at = "opened"
    /\ allowDir' = AllowWrite(race[w].rc)
    /\ race' = [race EXCEPT ![w].at = "written"]
    /\ UNCHANGED <<fs, denyDir, trustDir, cfg, shellEnv, stateDir, last>>

\* os.Remove of the deny entry; Store.Allow returns nil.
AllowsRemove ==
  \E w \in Allowers :
    /\ race[w].at = "written"
    /\ denyDir' = AllowRemove(race[w].rc)
    /\ race' = [race EXCEPT ![w].at = "done", !.finished = Append(@, w)]
    /\ UNCHANGED <<fs, allowDir, trustDir, cfg, shellEnv, stateDir, last>>

\* Both commands have returned; the next pair may start.
AllowsOver ==
  /\ race.allow.at = "done" /\ race.allow2.at = "done"
  /\ race' = NoRace
  /\ last' = NoRet
  /\ UNCHANGED <<fs, allowDir, denyDir, trustDir, cfg, shellEnv, stateDir>>

\* Between two pairs the script is rewritten or denied.
AllowsScript ==
  /\ race = NoRace
  /\ \E b \in Contents : WriteScript(PathT, b)
  /\ UNCHANGED <<shellEnv, stateDir, race, last>>

AllowsDeny ==
  /\ race = NoRace
  /\ ~NewRC(PathT).err
  /\ last' = Ret("Deny", PathT, NewRC(PathT).rc, "")
  /\ Deny(PathT, "none")
  /\ UNCHANGED <<shellEnv, stateDir, race>>

NextAllows ==
  \/ AllowsStart
  \/ AllowsOpen
  \/ AllowsWrite
  \/ AllowsRemove
  \/ AllowsOver
  \/ AllowsScript
  \/ AllowsDeny

SpecAllows == InitExport /\ [][NextAllows]_vars

\* ------------------------------------------------------------------------
\* SpecDiff: the environment functions of internal/env applied to every
\* environment and diff over a few keys. shellEnv is the environment the
\* function is applied to, last is what it returned; a behaviour applies
\* one function once.
\* ------------------------------------------------------------------------

\* Two keys the filter keeps, the second a near miss of the CASCADE_ prefix.
DiffKeys == {<<"a">>, <<"C", "A", "S", "C", "A", "D", "E">>}

\* Values: the empty string and two others.
EnvValues == {<<>>, <<"0">>, <<"1">>}

\* The environments: any values for any of DiffKeys, and at most one of the
\* keys the filter drops, set.
Envs ==
  UNION {{e \in [ks \cup ig -> EnvValues] : \A k \in ig : e[k] = <<"1">>} :
           ks \in SUBSET DiffKeys, ig \in {{}} \cup {{k} : k \in ignoredKeys \cup {CASCADE_DIFF, CASCADE_DIR}}}

\* The well-formed diffs over DiffKeys: each key is added (prev empty, next
\* not), removed (next empty, prev not) or changed (both non-empty, unequal).
Diffs ==
  UNION {{<< [Prev |-> prev, Next |-> next] >> :
            prev \in [ks -> EnvValues], next \in [ks -> EnvValues]} :
           ks \in SUBSET DiffKeys}

WellFormedDiffs ==
  {d \in Diffs : \A k \in DOMAIN d[1].Prev :
                   /\ d[1].Prev[k] # d[1].Next[k]
                   /\ d[1].Prev[k] # <<>> \/ d[1].Next[k] # <<>>}

InitDiff ==
  /\ fs = [p \in ScriptPaths |-> NoFile]
  /\ allowDir = <<>>
  /\ denyDir = <<>>
  /\ trustDir = <<>>
  /\ cfg = [WhitelistPrefix |-> <<>>]
  /\ shellEnv \in Envs
  /\ stateDir = <<>>
  /\ race = NoRace
  /\ last = NoRun

\* e.Filtered()
DiffFiltered ==
  /\ last = NoRun
  /\ last' = [op |-> "Filtered", e |-> shellEnv, filtered |-> Filtered(shellEnv)]
  /\ UNCHANGED <<fs, allowDir, denyDir, trustDir, cfg, shellEnv, stateDir, race>>

\* What BuildEnvDiff(e1, e2) returned, that diff applied to e1, its reverse
\* applied to e2, and the set and unset lines runExport and revertAndCleanup
\* derive from it.
BuildRecord(e1, e2, diff) ==
  [op |-> "BuildEnvDiff", e1 |-> e1, e2 |-> e2, diff |-> diff,
   patched |-> Patch(diff, e1), restored |-> Patch(Reverse(diff), e2),
   export |-> DiffExport(diff[1].Next),
   revert |-> DiffExport(Reverse(diff)[1].Next)]

DiffBuild ==
  /\ last = NoRun
  /\ \E e2 \in Envs : last' = BuildRecord(shellEnv, e2, BuildEnvDiff(shellEnv, e2))
  /\ UNCHANGED <<fs, allowDir, denyDir, trustDir, cfg, shellEnv, stateDir, race>>

\* d.Patch(e) and d.Reverse().Patch(d.Patch(e)) for a well-formed diff d.
PatchRecord(e, d, patched) ==
  [op |-> "Patch", e |-> e, diff |-> d, patched |-> patched,
   restored |-> Patch(Reverse(d), patched)]

DiffPatch ==
  /\ last = NoRun
  /\ \E d \in WellFormedDiffs : last' = PatchRecord(shellEnv, d, Patch(d, shellEnv))
  /\ UNCHANGED <<fs, allowDir, denyDir, trustDir, cfg, shellEnv, stateDir, race>>

NextDiff == DiffFiltered \/ DiffBuild \/ DiffPatch

SpecDiff == InitDiff /\ [][NextDiff]_vars

\* ------------------------------------------------------------------------
\* SpecStore and SpecStoreSeq: internal/state at the granularity of its
\* filesystem calls.  Here stateDir is the directory on disk: names maps a
\* file name to its inode and inodes maps an inode to its bytes.  race holds
\* the position of every running Save and Delete.
\* ------------------------------------------------------------------------

EmptyDisk == [names |-> <<>>, inodes |-> <<>>]

\* The first inode number not in use.
FreshIno(disk) ==
  CHOOSE i \in 1..(Cardinality(DOMAIN disk.inodes) + 1) :
    /\ i \notin DOMAIN disk.inodes
    /\ \A j \in 1..(i - 1) : j \in DOMAIN disk.inodes

\* An inode lives while a name or an open descriptor refers to it.
Reclaim(disk, open) ==
  [disk EXCEPT !.inodes = [i \in {j \in DOMAIN @ : j \in open \/ \E n \in DOMAIN disk.names : disk.names[n] = j} |-> @[i]]]

\* os.OpenFile(name, O_WRONLY|O_CREATE|O_TRUNC, perm), the first half of
\* os.WriteFile: an existing file is truncated in place.
OpenTrunc(disk, name) ==
  IF name \in DOMAIN disk.names
  THEN [disk |-> [disk EXCEPT !.inodes[disk.names[name]] = <<>>], fd |-> disk.names[name]]
  ELSE [disk |-> [names |-> MapSet(disk.names, name, FreshIno(disk)), inodes |-> MapSet(disk.inodes, FreshIno(disk), <<>>)],
        fd |-> FreshIno(disk)]

\* f.Write(data) at offset 0, the second half of os.WriteFile: bytes of the
\* file beyond the written ones stay.
WriteAt(disk, fd, data) ==
  [disk EXCEPT !.inodes[fd] = [i \in 1..(IF Len(data) > Len(@) THEN Len(data) ELSE Len(@)) |-> IF i <= Len(data) THEN data[i] ELSE @[i]]]

\* os.Rename(from, to): fails when from does not exist.
Rename(disk, from, to, open) ==
  IF from \in DOMAIN disk.names
  THEN [ok |-> TRUE, disk |-> Reclaim([disk EXCEPT !.names = MapSet(RemoveEntry(@, from), to, @[from])], open)]
  ELSE [ok |-> FALSE, disk |-> disk]

\* os.Remove(name); a missing file is os.ErrNotExist, which every caller
\* here ignores.
Remove(disk, name, open) == Reclaim([disk EXCEPT !.names = RemoveEntry(@, name)], open)

\* json.Marshal(state): the text grows with the diff.
jsonMarshal(state) ==
  [i \in 1..(1 + Cardinality(DOMAIN state.Diff[1].Next)) |-> <<state, i>>]

StoreStates ==
  UNION {{[Path |-> Abs(p), ContentHash |-> Sha256(<<ByteOf(x[1])>>), Diff |-> BuildEnvDiff(BaseEnv, x[2])] :
            x \in (1..NumContents) \X {BaseEnv, MapSet(BaseEnv, <<"a">>, Dir(p))}} : p \in ExportPaths}

\* json.Unmarshal(data, &state)
jsonUnmarshal(data) ==
  IF \E st \in StoreStates : jsonMarshal(st) = data
  THEN [ok |-> TRUE, state |-> CHOOSE st \in StoreStates : jsonMarshal(st) = data]
  ELSE [ok |-> FALSE, state |-> <<>>]

\* Variant: the file name does not depend on the script.
stateFile_Shared(rcPath) == <<hashPath(<<>>), ".json">>

stateFile(rcPath) == <<hashPath(Abs(rcPath)), ".json">>

tmpFile(rcPath) == stateFile(rcPath) \o <<".tmp">>

\* What Load returns: the entry (nil when the file does not exist) and the
\* error.
StoreLoad(disk, rcPath) ==
  IF stateFile(rcPath) \notin DOMAIN disk.names THEN [state |-> <<>>, err |-> ""]
  ELSE IF jsonUnmarshal(disk.inodes[disk.names[stateFile(rcPath)]]).ok
       THEN [state |-> <<jsonUnmarshal(disk.inodes[disk.names[stateFile(rcPath)]]).state>>, err |-> ""]
       ELSE [state |-> <<>>, err |-> "unmarshal state"]

Savers == {"s1", "s2"}

\* The entry each concurrent Save stores, all for the same script.
StateOf(s) ==
  [Path |-> Abs(PathT), ContentHash |-> Sha256(<<ByteOf(1)>>),
   Diff |-> BuildEnvDiff(BaseEnv, IF s = "s1" THEN MapSet(BaseEnv, <<"a">>, DirT) ELSE BaseEnv)]

NoCall == [pc |-> "idle", fd |-> 0, err |-> ""]

\* The descriptors that running Saves other than those of except hold open.
OpenFds(except) == {race[s].fd : s \in {t \in Savers \ except : race[t].pc = "opened"}}

InitStore ==
  /\ fs = [p \in ScriptPaths |-> NoFile]
  /\ allowDir = <<>>
  /\ denyDir = <<>>
  /\ trustDir = <<>>
  /\ cfg = [WhitelistPrefix |-> <<>>]
  /\ shellEnv = BaseEnv
  /\ stateDir = EmptyDisk
  /\ race = [s1 |-> NoCall, s2 |-> NoCall, d |-> NoCall]
  /\ last = NoRun

\* Save: os.WriteFile(tmpFile, data, 0600) opens the temporary file ...
SaveOpen(s) ==
  /\ race[s].pc = "idle"
  /\ stateDir' = OpenTrunc(stateDir, tmpFile(PathT)).disk
  /\ race' = [race EXCEPT ![s] = [pc |-> "opened", fd |-> OpenTrunc(stateDir, tmpFile(PathT)).fd, err |-> ""]]
  /\ UNCHANGED <<fs, allowDir, denyDir, trustDir, cfg, shellEnv, last>>

\* ... writes the entry and closes the file;
SaveWrite(s) ==
  /\ race[s].pc = "opened"
  /\ stateDir' = Reclaim(WriteAt(stateDir, race[s].fd, jsonMarshal(StateOf(s))), OpenFds({s}))
  /\ race' = [race EXCEPT ![s] = [pc |-> "written", fd |-> 0, err |-> ""]]
  /\ UNCHANGED <<fs, allowDir, denyDir, trustDir, cfg, shellEnv, last>>

\* os.Rename(tmpFile, stateFile);
SaveRename(s) ==
  /\ race[s].pc = "written"
  /\ stateDir' = Rename(stateDir, tmpFile(PathT), stateFile(PathT), OpenFds({})).disk
  /\ race' = [race EXCEPT ![s].pc = IF Rename(stateDir, tmpFile(PathT), stateFile(PathT), OpenFds({})).ok THEN "done" ELSE "failed"]
  /\ UNCHANGED <<fs, allowDir, denyDir, trustDir, cfg, shellEnv, last>>

\* a failed rename removes the temporary file and returns the error.
SaveCleanup(s) ==
  /\ race[s].pc = "failed"
  /\ stateDir' = Remove(stateDir, tmpFile(PathT), OpenFds({}))
  /\ race' = [race EXCEPT ![s] = [pc |-> "done", fd |-> 0, err |-> "rename state file"]]
  /\ UNCHANGED <<fs, allowDir, denyDir, trustDir, cfg, shellEnv, last>>

\* The caller of a returned Save or Delete goes on.
StoreReturn(s) ==
  /\ race[s].pc = "done"
  /\ race' = [race EXCEPT ![s] = NoCall]
  /\ UNCHANGED <<fs, allowDir, denyDir, trustDir, cfg, shellEnv, stateDir, last>>

\* Delete: os.Remove(stateFile), a missing file is no error.
StoreDelete ==
  /\ race.d.pc = "idle"
  /\ stateDir' = Remove(stateDir, stateFile(PathT), OpenFds({}))
  /\ race' = [race EXCEPT !.d.pc = "done"]
  /\ UNCHANGED <<fs, allowDir, denyDir, trustDir, cfg, shellEnv, last>>

\* Load: os.ReadFile(stateFile) and json.Unmarshal.
StoreLoadCall ==
  /\ last' = [op |-> "Load"] @@ StoreLoad(stateDir, PathT)
  /\ UNCHANGED <<fs, allowDir, denyDir, trustDir, cfg, shellEnv, stateDir, race>>

NextStore ==
  \/ \E s \in Savers : SaveOpen(s)
  \/ \E s \in Savers : SaveWrite(s)
  \/ \E s \in Savers : SaveRename(s)
  \/ \E s \in Savers : SaveCleanup(s)
  \/ \E s \in Savers \cup {"d"} : StoreReturn(s)
  \/ StoreDelete
  \/ StoreLoadCall

SpecStore == InitStore /\ [][NextStore]_vars

\* ------------------------------------------------------------------------
\* SpecStoreSeq: Save, Load and Delete called one after the other on two
\* scripts.  last records the call and what Load returns for every script
\* before and after it.
\* ------------------------------------------------------------------------

\* Save from the rename on: written is the disk after os.WriteFile.
StoreSaveRename(written, rcPath) ==
  IF Rename(written, tmpFile(rcPath), stateFile(rcPath), {}).ok
  THEN [disk |-> Rename(written, tmpFile(rcPath), stateFile(rcPath), {}).disk, err |-> ""]
  ELSE [disk |-> Remove(written, tmpFile(rcPath), {}), err |-> "rename state file"]

\* Save from the write on: opened is the result of opening the temporary
\* file.
StoreSaveWrite(opened, rcPath, data) ==
  StoreSaveRename(Reclaim(WriteAt(opened.disk, opened.fd, data), {}), rcPath)

StoreSave(disk, rcPath, contentHash, diff) ==
  StoreSaveWrite(OpenTrunc(disk, tmpFile(rcPath)), rcPath,
                 jsonMarshal([Path |-> Abs(rcPath), ContentHash |-> contentHash, Diff |-> diff]))

Loads(disk) == [p \in ExportPaths |-> StoreLoad(disk, p)]

SeqSave ==
  \E st \in StoreStates :
    /\ stateDir' = StoreSave(stateDir, st.Path, st.ContentHash, st.Diff).disk
    /\ last' = [op |-> "Save", path |-> st.Path, state |-> st,
                err |-> StoreSave(stateDir, st.Path, st.ContentHash, st.Diff).err,
                before |-> Loads(stateDir),
                after |-> Loads(StoreSave(stateDir, st.Path, st.ContentHash, st.Diff).disk)]
    /\ UNCHANGED <<fs, allowDir, denyDir, trustDir, cfg, shellEnv, race>>

SeqDelete ==
  \E p \in ExportPaths :
    /\ stateDir' = Remove(stateDir, stateFile(p), {})
    /\ last' = [op |-> "Delete", path |-> p, state |-> <<>>, err |-> "",
                before |-> Loads(stateDir), after |-> Loads(Remove(stateDir, stateFile(p), {}))]
    /\ UNCHANGED <<fs, allowDir, denyDir, trustDir, cfg, shellEnv, race>>

SeqLoad ==
  \E p \in ExportPaths :
    /\ last' = [op |-> "Load", path |-> p, state |-> StoreLoad(stateDir, p).state,
                err |-> StoreLoad(stateDir, p).err,
                before |-> Loads(stateDir), after |-> Loads(stateDir)]
    /\ UNCHANGED <<fs, allowDir, denyDir, trustDir, cfg, shellEnv, stateDir, race>>

NextStoreSeq == SeqSave \/ SeqDelete \/ SeqLoad

SpecStoreSeq == InitStore /\ [][NextStoreSeq]_vars

\* ------------------------------------------------------------------------
\* SpecPerm: the permission bits of what the stores create.  Here fs is the
\* five directories cascade writes to, each with its mode (none while the
\* directory does not exist) and the mode of each of its files; cfg is the
\* umask of the process.
\* ------------------------------------------------------------------------

rwx == {"r", "w", "x"}

Perm0755 == [u |-> rwx, g |-> {"r", "x"}, o |-> {"r", "x"}]
Perm0644 == [u |-> {"r", "w"}, g |-> {"r"}, o |-> {"r"}]
Perm0700 == [u |-> rwx, g |-> {}, o |-> {}]
Perm0600 == [u |-> {"r", "w"}, g |-> {}, o |-> {}]

\* The umasks 022 and 077.
Umasks == {[u |-> {}, g |-> {"w"}, o |-> {"w"}], [u |-> {}, g |-> rwx, o |-> rwx]}

\* The mode a file or directory is created with: perm &^ umask.
Created(perm, umask) == [c \in {"u", "g", "o"} |-> perm[c] \ umask[c]]

NoDir == [mode |-> <<>>, files |-> <<>>]

\* os.MkdirAll(dir, perm): an existing directory keeps its mode.
MkdirAll(d, perm, umask) == IF d.mode # <<>> THEN d ELSE [d EXCEPT !.mode = <<Created(perm, umask)>>]

\* os.WriteFile(name, data, perm): an existing file keeps its mode.
WriteFile(d, name, perm, umask) ==
  IF name \in DOMAIN d.files THEN d ELSE [d EXCEPT !.files = MapSet(@, name, Created(perm, umask))]

\* os.Rename within the directory: the file keeps its mode.
RenameFile(d, from, to) == [d EXCEPT !.files = MapSet(RemoveEntry(@, from), to, @[from])]

\* Save and Set: the temporary file, then the rename.
TempThenRename(d, name, perm, umask) ==
  RenameFile(WriteFile(d, name \o <<".tmp">>, perm, umask), name \o <<".tmp">>, name)

InitPerm ==
  /\ fs = [allow |-> NoDir, deny |-> NoDir, trust |-> NoDir, state |-> NoDir, cache |-> NoDir]
  /\ allowDir = <<>>
  /\ denyDir = <<>>
  /\ trustDir = <<>>
  /\ cfg \in Umasks
  /\ shellEnv = BaseEnv
  /\ stateDir = <<>>
  /\ race = NoRace
  /\ last = NoRun

\* Store.Allow
PermAllow ==
  \E p \in ExportPaths, c \in Contents :
    /\ fs' = [fs EXCEPT !.allow = WriteFile(MkdirAll(@, Perm0755, cfg), <<Sha256(c)>>, Perm0644, cfg),
                        !.deny = [@ EXCEPT !.files = RemoveEntry(@, <<Sha256(p)>>)]]
    /\ UNCHANGED <<allowDir, denyDir, trustDir, cfg, shellEnv, stateDir, race, last>>

\* Store.Deny
PermDeny ==
  \E p \in ExportPaths, c \in Contents :
    /\ fs' = [fs EXCEPT !.deny = WriteFile(MkdirAll(@, Perm0755, cfg), <<Sha256(p)>>, Perm0644, cfg),
                        !.allow = [@ EXCEPT !.files = RemoveEntry(@, <<Sha256(c)>>)]]
    /\ UNCHANGED <<allowDir, denyDir, trustDir, cfg, shellEnv, stateDir, race, last>>

\* Store.TrustSubtree
PermTrust ==
  \E dir \in {DirH, DirT} :
    /\ fs' = [fs EXCEPT !.trust = WriteFile(MkdirAll(@, Perm0755, cfg), <<dirPathHash(dir)>>, Perm0644, cfg)]
    /\ UNCHANGED <<allowDir, denyDir, trustDir, cfg, shellEnv, stateDir, race, last>>

\* state.NewStoreWithDir and Store.Save
PermSave ==
  \E p \in ExportPaths :
    /\ fs' = [fs EXCEPT !.state = TempThenRename(MkdirAll(@, Perm0700, cfg), stateFile(p), Perm0600, cfg)]
    /\ UNCHANGED <<allowDir, denyDir, trustDir, cfg, shellEnv, stateDir, race, last>>

\* eval.NewCache and Cache.Set
PermCacheSet ==
  \E c \in Contents :
    /\ fs' = [fs EXCEPT !.cache = TempThenRename(MkdirAll(@, Perm0700, cfg), <<Sha256(c), ".json">>, Perm0600, cfg)]
    /\ UNCHANGED <<allowDir, denyDir, trustDir, cfg, shellEnv, stateDir, race, last>>

NextPerm == PermAllow \/ PermDeny \/ PermTrust \/ PermSave \/ PermCacheSet

SpecPerm == InitPerm /\ [][NextPerm]_vars

\* ------------------------------------------------------------------------
\* SpecEval: Evaluator.Evaluate with a cache attached, step by step, next to
\* the bash child it spawns and a background process the script may leave
\* behind.  Here stateDir is the cache directory (key -> entry) and race is
\* the call in progress: the position of Evaluate, the processes holding the
\* write ends of the fd-3 pipe and of the stdout pipe, the bytes in the fd-3
\* pipe, and the child; its field stored remembers from which content hash
\* and input environment every result put into the cache was computed.
\* ------------------------------------------------------------------------

\* The input environments: IN=first or IN=second, next to a second entry.
EvalEnvs ==
  {[k \in {<<"c">>, <<"d">>} |-> IF k = <<"c">> THEN v ELSE <<"0">>] : v \in {<<"0">>, <<"1">>}}

\* The bytes of the entries in ascending order.
Alphabet == <<"0", "1", "=", "c", "d">>

ByteRank(c) == CHOOSE i \in DOMAIN Alphabet : Alphabet[i] = c

\* s < t for strings, byte by byte.
RECURSIVE Less(_, _)
Less(s, t) ==
  IF t = <<>> THEN FALSE
  ELSE IF s = <<>> THEN TRUE
  ELSE IF Head(s) # Head(t) THEN ByteRank(Head(s)) < ByteRank(Head(t))
  ELSE Less(Tail(s), Tail(t))

\* Variant: the entries stay in the order the map yielded them.
slicesSort_Unsorted(result) == result

\* slices.Sort(result)
slicesSort(result) ==
  CHOOSE t \in [DOMAIN result -> {result[i] : i \in DOMAIN result}] :
    /\ \A x \in DOMAIN result : Cardinality({i \in DOMAIN t : t[i] = result[x]}) = Cardinality({i \in DOMAIN result : result[i] = result[x]})
    /\ \A i \in DOMAIN t : \A j \in DOMAIN t : i < j => ~Less(t[j], t[i])

\* The orders in which ranging over the map e may yield its keys.
RangeOrders(e) ==
  {o \in [1..Cardinality(DOMAIN e) -> DOMAIN e] : \A i, j \in DOMAIN o : i # j => o[i] # o[j]}

\* e.ToGoEnv() when the map yields its keys in the given order.
ToGoEnv(e, order) == slicesSort([i \in DOMAIN order |-> order[i] \o <<"=">> \o e[order[i]]])

RECURSIVE KeyBytes(_)
KeyBytes(entries) ==
  IF entries = <<>> THEN <<>> ELSE Head(entries) \o <<"\\x00">> \o KeyBytes(Tail(entries))

CacheKey(rc, inputEnv, order) ==
  Sha256(<<rc.ContentHash, "\n">> \o KeyBytes(ToGoEnv(inputEnv, order)))

\* Cache.Get(key): (result, ok)
CacheGet(cache, key) ==
  IF key \in DOMAIN cache
  THEN [ok |-> TRUE, result |-> <<[Env |-> cache[key].Result, ExtraWatches |-> cache[key].ExtraWatches]>>]
  ELSE [ok |-> FALSE, result |-> <<>>]

\* Cache.Set(key, result, rcPath)
CacheSet(cache, key, result, rcPath) ==
  MapSet(cache, key, [RCPath |-> rcPath, Result |-> result.Env, ExtraWatches |-> result.ExtraWatches])

\* `cascade dump json` of the exit trap, and ParseJSON.
DumpJSON(env) == <<"json", env>>

ParseJSON(buf) == buf[2]

NoEval ==
  [pc |-> "idle", rc |-> NoRC, inputEnv |-> <<>>, key |-> <<>>, fd3 |-> {}, out |-> {}, pipe |-> <<>>,
   jsonBuf |-> <<>>, child |-> "none", ret |-> 0, bg |-> "none", readErr |-> FALSE, stored |-> {}]

InitEval ==
  /\ fs = [p \in ScriptPaths |-> IF p = PathT THEN RegularFile(<<ByteOf(1)>>) ELSE NoFile]
  /\ allowDir = <<>>
  /\ denyDir = <<>>
  /\ trustDir = <<>>
  /\ cfg = [WhitelistPrefix |-> <<>>]
  /\ shellEnv = BaseEnv
  /\ stateDir = <<>>
  /\ race = NoEval
  /\ last = NoRun

\* What Evaluate returns.
EvalReturn(hit, spawned, ret, json, err, result) ==
  [op |-> "Evaluate", rc |-> race.rc, inputEnv |-> race.inputEnv, hit |-> hit, spawned |-> spawned,
   ret |-> ret, json |-> json, err |-> err, result |-> result]

\* Lines 79-133: the cache lookup, the pipe, and cmd.Start.
EvStartCall(rc, inputEnv, key, startFails) ==
  IF CacheGet(stateDir, key).ok
  THEN /\ race' = [NoEval EXCEPT !.pc = "returned", !.rc = rc, !.inputEnv = inputEnv, !.key = key, !.stored = race.stored]
       /\ last' = [op |-> "Evaluate", rc |-> rc, inputEnv |-> inputEnv, hit |-> TRUE, spawned |-> FALSE,
                   ret |-> 0, json |-> <<>>, err |-> "", result |-> CacheGet(stateDir, key).result]
  ELSE IF startFails
  THEN /\ race' = [NoEval EXCEPT !.pc = "returned", !.rc = rc, !.inputEnv = inputEnv, !.key = key, !.stored = race.stored]
       /\ last' = [op |-> "Evaluate", rc |-> rc, inputEnv |-> inputEnv, hit |-> FALSE, spawned |-> FALSE,
                   ret |-> 0, json |-> <<>>, err |-> "start bash", result |-> <<>>]
  ELSE /\ race' = [NoEval EXCEPT !.pc = "started", !.rc = rc, !.inputEnv = inputEnv, !.key = key,
                                 !.fd3 = {"parent", "child"}, !.out = {"child"}, !.child = "running",
                                 !.stored = race.stored]
       /\ last' = NoRun

EvStart ==
  /\ race.pc = "idle"
  /\ \E inputEnv \in EvalEnvs, startFails \in BOOLEAN :
       \E order \in RangeOrders(inputEnv) :
         EvStartCall(NewRC(PathT).rc, inputEnv, CacheKey(NewRC(PathT).rc, inputEnv, order), startFails)
  /\ UNCHANGED <<fs, allowDir, denyDir, trustDir, cfg, shellEnv, stateDir>>

\* Variant: the parent keeps its write end open while it reads.
EvCloseWriter_Keep ==
  /\ race.pc = "started"
  /\ race' = [race EXCEPT !.pc = "reading"]
  /\ UNCHANGED <<fs, allowDir, denyDir, trustDir, cfg, shellEnv, stateDir, last>>

\* Line 136: jsonWriter.Close() in the parent.
EvCloseWriter ==
  /\ race.pc = "started"
  /\ race' = [race EXCEPT !.pc = "reading", !.fd3 = @ \ {"parent"}]
  /\ UNCHANGED <<fs, allowDir, denyDir, trustDir, cfg, shellEnv, stateDir, last>>

\* Lines 139-140: io.Copy returns at end of file, when no process holds the
\* write end.
EvCopy ==
  /\ race.pc = "reading"
  /\ race.fd3 = {}
  /\ race' = [race EXCEPT !.pc = "waiting", !.jsonBuf = race.pipe, !.pipe = <<>>]
  /\ UNCHANGED <<fs, allowDir, denyDir, trustDir, cfg, shellEnv, stateDir, last>>

\* Lines 140-145: the read fails; cmd.Process.Kill().
EvReadFails ==
  /\ race.pc = "reading"
  /\ race' = [race EXCEPT !.pc = "waiting", !.readErr = TRUE, !.child = "exited",
                          !.ret = IF race.child = "running" THEN 1 ELSE @,
                          !.fd3 = @ \ {"child"}, !.out = @ \ {"child"}]
  /\ UNCHANGED <<fs, allowDir, denyDir, trustDir, cfg, shellEnv, stateDir, last>>

\* The result of a successful evaluation (lines 163-182).
EvResult(jsonBuf) == [Env |-> ParseJSON(jsonBuf), ExtraWatches |-> <<>>]

\* Variant: the exit status of the child is not looked at.
EvWait_IgnoreStatus ==
  /\ race.pc = "waiting"
  /\ race.child = "exited"
  /\ race.out = {}
  /\ race' = [race EXCEPT !.pc = "returned", !.child = "reaped",
                          !.stored = IF ~race.readErr /\ race.jsonBuf # <<>>
                                     THEN @ \cup {[hash |-> race.rc.ContentHash, env |-> race.inputEnv, result |-> EvResult(race.jsonBuf)]}
                                     ELSE @]
  /\ IF race.readErr
     THEN last' = EvalReturn(FALSE, TRUE, race.ret, race.jsonBuf, "read json output", <<>>) /\ stateDir' = stateDir
     ELSE IF race.jsonBuf = <<>>
     THEN last' = EvalReturn(FALSE, TRUE, race.ret, race.jsonBuf, "no json output from bash", <<>>) /\ stateDir' = stateDir
     ELSE /\ last' = EvalReturn(FALSE, TRUE, race.ret, race.jsonBuf, "", <<EvResult(race.jsonBuf)>>)
          /\ stateDir' = CacheSet(stateDir, race.key, EvResult(race.jsonBuf), race.rc.Path)
  /\ UNCHANGED <<fs, allowDir, denyDir, trustDir, cfg, shellEnv>>

\* Lines 143-185: cmd.Wait returns once the child has exited and the copy
\* of its stdout has ended; then the exit status, the JSON and the cache.
EvWait ==
  /\ race.pc = "waiting"
  /\ race.child = "exited"
  /\ race.out = {}
  /\ race' = [race EXCEPT !.pc = "returned", !.child = "reaped",
                          !.stored = IF ~race.readErr /\ race.ret = 0 /\ race.jsonBuf # <<>>
                                     THEN @ \cup {[hash |-> race.rc.ContentHash, env |-> race.inputEnv, result |-> EvResult(race.jsonBuf)]}
                                     ELSE @]
  /\ IF race.readErr
     THEN last' = EvalReturn(FALSE, TRUE, race.ret, race.jsonBuf, "read json output", <<>>) /\ stateDir' = stateDir
     ELSE IF race.ret # 0
     THEN last' = EvalReturn(FALSE, TRUE, race.ret, race.jsonBuf, "bash exited with status", <<>>) /\ stateDir' = stateDir
     ELSE IF race.jsonBuf = <<>>
     THEN last' = EvalReturn(FALSE, TRUE, race.ret, race.jsonBuf, "no json output from bash", <<>>) /\ stateDir' = stateDir
     ELSE /\ last' = EvalReturn(FALSE, TRUE, race.ret, race.jsonBuf, "", <<EvResult(race.jsonBuf)>>)
          /\ stateDir' = CacheSet(stateDir, race.key, EvResult(race.jsonBuf), race.rc.Path)
  /\ UNCHANGED <<fs, allowDir, denyDir, trustDir, cfg, shellEnv>>

\* The caller goes on.
EvReturn ==
  /\ race.pc = "returned"
  /\ race' = [NoEval EXCEPT !.stored = race.stored]
  /\ UNCHANGED <<fs, allowDir, denyDir, trustDir, cfg, shellEnv, stateDir, last>>

\* The script runs to its end in the bash child: it may leave a background
\* process behind that keeps fd 3, stdout, both or neither; the exit trap
\* dumps the environment to fd 3 unless the dump fails, and the child exits
\* with the status of the script.
ChildExit ==
  /\ race.child = "running"
  /\ \E ret \in {0, 1}, dumps \in BOOLEAN, bgFds \in SUBSET {"fd3", "out"}, leavesBg \in BOOLEAN :
       race' = [race EXCEPT !.child = "exited", !.ret = ret,
                            !.pipe = IF dumps THEN DumpJSON(Evaluate(race.rc, race.inputEnv).Env) ELSE <<>>,
                            !.bg = IF leavesBg THEN "running" ELSE "none",
                            !.fd3 = (@ \ {"child"}) \cup (IF leavesBg /\ "fd3" \in bgFds THEN {"bg"} ELSE {}),
                            !.out = (@ \ {"child"}) \cup (IF leavesBg /\ "out" \in bgFds THEN {"bg"} ELSE {})]
  /\ UNCHANGED <<fs, allowDir, denyDir, trustDir, cfg, shellEnv, stateDir, last>>

\* The background process exits.
BgExit ==
  /\ race.bg = "running"
  /\ race' = [race EXCEPT !.bg = "none", !.fd3 = @ \ {"bg"}, !.out = @ \ {"bg"}]
  /\ UNCHANGED <<fs, allowDir, denyDir, trustDir, cfg, shellEnv, stateDir, last>>

\* The user edits the script between two evaluations.
EvWrite ==
  /\ race.pc = "idle"
  /\ \E bytes \in Contents : WriteScript(PathT, bytes)
  /\ UNCHANGED <<shellEnv, stateDir, race, last>>

NextEval ==
  \/ EvStart
  \/ EvCloseWriter
  \/ EvCopy
  \/ EvReadFails
  \/ EvWait
  \/ EvReturn
  \/ ChildExit
  \/ BgExit
  \/ EvWrite

SpecEval == InitEval /\ [][NextEval]_vars

\* The Go scheduler runs the goroutine of Evaluate whenever it can take a
\* step; nothing makes the child or the background process exit.
SpecEvalLive ==
  SpecEval /\ WF_vars(EvCloseWriter) /\ WF_vars(EvCopy) /\ WF_vars(EvWait) /\ WF_vars(EvReturn)

\* ------------------------------------------------------------------------
\* Store.Allow as its two filesystem calls, with the process dying between
\* them, among complete allow, deny and revoke commands on the script PathT.
\* The commands run one after another (SpecRace has the concurrent runs);
\* last is the record of the latest step, and race.finished is empty until
\* an Allow dies on a denied script and then lists "Crash" and the Revoke
\* and Allow commands that ran to their end since.
\* ------------------------------------------------------------------------

Since(finished, op) ==
  IF finished = <<>> \/ (\E i \in DOMAIN finished : finished[i] = op)
  THEN finished ELSE Append(finished, op)

\* Store.Allow up to and including os.WriteFile of the allow entry.
CrashAllowWrite ==
  /\ race.allow.at = "idle"
  /\ ~NewRC(PathT).err
  /\ AllowResult(NewRC(PathT).rc, "write").err = "write allow file"
  /\ allowDir' = AllowWrite(NewRC(PathT).rc)
  /\ race' = [race EXCEPT !.allow = [at |-> "written", rc |-> NewRC(PathT).rc, err |-> ""]]
  /\ last' = Ret("AllowWrite", PathT, NewRC(PathT).rc, "")
  /\ UNCHANGED <<fs, denyDir, trustDir, cfg, shellEnv, stateDir>>

\* os.Remove of the deny entry; Store.Allow returns nil.
CrashAllowRemove ==
  /\ race.allow.at = "written"
  /\ denyDir' = AllowRemove(race.allow.rc)
  /\ race' = [NoRace EXCEPT !.finished = Since(race.finished, "Allow")]
  /\ last' = Ret("Allow", PathT, race.allow.rc, "")
  /\ UNCHANGED <<fs, allowDir, trustDir, cfg, shellEnv, stateDir>>

\* The process dies after os.WriteFile and before os.Remove.
CrashAllowDies ==
  /\ race.allow.at = "written"
  /\ race' = [NoRace EXCEPT !.finished = IF DeniedT THEN <<"Crash">> ELSE race.finished]
  /\ last' = Ret("Crash", PathT, race.allow.rc, "")
  /\ UNCHANGED <<fs, allowDir, denyDir, trustDir, cfg, shellEnv, stateDir>>

CrashDeny ==
  /\ race.allow.at = "idle"
  /\ Deny(PathT, "none")
  /\ last' = Ret("Deny", PathT, NewRC(PathT).rc, "")
  /\ UNCHANGED <<shellEnv, stateDir, race>>

CrashRevoke ==
  /\ race.allow.at = "idle"
  /\ Revoke(PathT, FALSE, FALSE)
  /\ race' = [race EXCEPT !.finished = Since(@, "Revoke")]
  /\ last' = Ret("Revoke", PathT, NewRC(PathT).rc, "")
  /\ UNCHANGED <<shellEnv, stateDir>>

CrashWrite ==
  /\ race.allow.at = "idle"
  /\ \E b \in Contents : WriteScript(PathT, b)
  /\ last' = Ret("WriteScript", PathT, NoRC, "")
  /\ UNCHANGED <<shellEnv, stateDir, race>>

CrashTrust ==
  /\ race.allow.at = "idle"
  /\ DirT \notin ListTrustedSubtrees
  /\ TrustSubtree(DirT, "none")
  /\ last' = Ret("TrustSubtree", DirT, NoRC, "")
  /\ UNCHANGED <<shellEnv, stateDir, race>>

NextCrash ==
  \/ CrashAllowWrite
  \/ CrashAllowRemove
  \/ CrashAllowDies
  \/ CrashDeny
  \/ CrashRevoke
  \/ CrashWrite
  \/ CrashTrust

SpecCrash == InitCmd /\ [][NextCrash]_vars

\* ------------------------------------------------------------------------
\* SpecCache: the evaluation cache as files.  stateDir is the cache
\* directory on disk (names and inodes, as in SpecStore), cfg.unreadable the
\* inodes whose mode lets nobody read them, race the position of two
\* concurrent calls of Evaluate on the script PathT with the input
\* environment shellEnv, last what the latest returned call returned.
\* ------------------------------------------------------------------------

\* The lengths a marshalled time.Time takes (RFC 3339 with the trailing
\* zeros of the nanoseconds left out).
MaxStamp == 2

\* cacheEntry{Timestamp, RCPath, Result, ExtraWatches}
cacheEntry(stamp, rcPath, result) ==
  [Timestamp |-> stamp, RCPath |-> rcPath, Result |-> result.Env, ExtraWatches |-> result.ExtraWatches]

\* The zero value of cacheEntry.
ZeroEntry == [Timestamp |-> 0, RCPath |-> <<>>, Result |-> <<>>, ExtraWatches |-> <<>>]

\* json.Marshal(entry): the text grows with the timestamp; the text of the
\* zero entry stands for `{}`.
entryMarshal(entry) == [i \in 1..(1 + entry.Timestamp) |-> <<entry, i>>]

\* Bytes that are no JSON text.
Garbage == <<<<ZeroEntry, 0>>>>

\* Variant: a text that breaks off is read as far as it goes.
entryUnmarshal_Lenient(data) ==
  IF data # <<>> /\ (\A i \in DOMAIN data : data[i] = <<data[1][1], i>>)
  THEN [ok |-> TRUE, entry |-> data[1][1]]
  ELSE [ok |-> FALSE, entry |-> ZeroEntry]

\* json.Unmarshal(data, &entry)
entryUnmarshal(data) ==
  IF data # <<>> /\ Len(data) = 1 + data[1][1].Timestamp /\ (\A i \in DOMAIN data : data[i] = <<data[1][1], i>>)
  THEN [ok |-> TRUE, entry |-> data[1][1]]
  ELSE [ok |-> FALSE, entry |-> ZeroEntry]

\* c.entryPath(key)
entryPath(key) == <<key, ".json">>

\* Cache.Get(key) on the directory: (result, ok).
FileGet(disk, unreadable, key) ==
  IF entryPath(key) \notin DOMAIN disk.names THEN [ok |-> FALSE, result |-> <<>>]
  ELSE IF disk.names[entryPath(key)] \in unreadable THEN [ok |-> FALSE, result |-> <<>>]
  ELSE IF ~entryUnmarshal(disk.inodes[disk.names[entryPath(key)]]).ok THEN [ok |-> FALSE, result |-> <<>>]
  ELSE [ok |-> TRUE,
        result |-> <<[Env |-> entryUnmarshal(disk.inodes[disk.names[entryPath(key)]]).entry.Result,
                     ExtraWatches |-> entryUnmarshal(disk.inodes[disk.names[entryPath(key)]]).entry.ExtraWatches]>>]

Evaluators == {"e1", "e2"}

NoEvaluate ==
  [pc |-> "idle", env |-> <<>>, key |-> <<>>, found |-> "", hit |-> FALSE, result |-> <<>>,
   fd |-> 0, seterr |-> "", alone |-> TRUE]

\* The key of a record under inputEnv.
KeyOfRC(rc, inputEnv) == CacheKey(rc, inputEnv, CHOOSE order \in RangeOrders(inputEnv) : TRUE)

\* The key of PathT under inputEnv.
KeyOf(inputEnv) == KeyOfRC(NewRC(PathT).rc, inputEnv)

\* What bash yields for PathT under inputEnv.
Fresh(inputEnv) == EvResult(DumpJSON(Evaluate(NewRC(PathT).rc, inputEnv).Env))

\* The texts json.Marshal gives for the entries Set stores, and `{}`.
EntryTexts ==
  {entryMarshal(cacheEntry(stamp, PathT, Fresh(inputEnv))) : stamp \in 1..MaxStamp, inputEnv \in EvalEnvs}
    \cup {entryMarshal(ZeroEntry)}

\* What the file of key is: missing, unreadable, the text of an entry, or
\* something else.
FileIs(disk, unreadable, key) ==
  IF entryPath(key) \notin DOMAIN disk.names THEN "missing"
  ELSE IF disk.names[entryPath(key)] \in unreadable THEN "unreadable"
  ELSE IF disk.inodes[disk.names[entryPath(key)]] \in EntryTexts THEN "entry"
  ELSE "unparsable"

\* The descriptors running calls other than those of except hold open.
OpenEntryFds(except) == {race[e].fd : e \in {x \in Evaluators \ except : race[x].pc = "opened"}}

\* Every other call that is running has company from now on.
Joined(e) == [x \in Evaluators |-> IF x # e /\ race[x].pc # "idle" THEN [race[x] EXCEPT !.alone = FALSE] ELSE race[x]]

InitCache ==
  /\ fs = [p \in ScriptPaths |-> IF p = PathT THEN RegularFile(<<ByteOf(1)>>) ELSE NoFile]
  /\ allowDir = <<>>
  /\ denyDir = <<>>
  /\ trustDir = <<>>
  /\ cfg = [unreadable |-> {}]
  /\ shellEnv \in EvalEnvs
  /\ stateDir = EmptyDisk
  /\ race = [e \in Evaluators |-> NoEvaluate]
  /\ last = NoRun

\* Evaluate up to the result: the cache lookup and, on a miss, the bash
\* child, which succeeds.
CaGetCall(e, inputEnv, got) ==
  /\ race' = [Joined(e) EXCEPT ![e] =
                [pc |-> IF got.ok THEN "done" ELSE "evaluated", env |-> inputEnv, key |-> KeyOf(inputEnv),
                 found |-> FileIs(stateDir, cfg.unreadable, KeyOf(inputEnv)), hit |-> got.ok,
                 result |-> IF got.ok THEN got.result[1] ELSE Fresh(inputEnv),
                 fd |-> 0, seterr |-> "", alone |-> \A x \in Evaluators \ {e} : race[x].pc = "idle"]]
  /\ last' = NoRun
  /\ UNCHANGED <<fs, allowDir, denyDir, trustDir, cfg, shellEnv, stateDir>>

CaGet(e) ==
  /\ race[e].pc = "idle"
  /\ CaGetCall(e, shellEnv, FileGet(stateDir, cfg.unreadable, KeyOf(shellEnv)))

\* Set: os.WriteFile(tmpPath, data, 0o600) opens the temporary file, or
\* fails ...
CaSetOpen(e) ==
  /\ race[e].pc = "evaluated"
  /\ \E fails \in BOOLEAN :
       IF fails
       THEN /\ race' = [race EXCEPT ![e].pc = "done", ![e].seterr = "write cache entry"]
            /\ UNCHANGED stateDir
       ELSE /\ stateDir' = OpenTrunc(stateDir, entryPath(race[e].key) \o <<".tmp">>).disk
            /\ race' = [race EXCEPT ![e].pc = "opened", ![e].fd = OpenTrunc(stateDir, entryPath(race[e].key) \o <<".tmp">>).fd]
  /\ last' = NoRun
  /\ UNCHANGED <<fs, allowDir, denyDir, trustDir, cfg, shellEnv>>

\* ... writes the entry and closes the file;
CaSetWrite(e) ==
  /\ race[e].pc = "opened"
  /\ \E stamp \in 1..MaxStamp :
       stateDir' = Reclaim(WriteAt(stateDir, race[e].fd, entryMarshal(cacheEntry(stamp, PathT, race[e].result))), OpenEntryFds({e}))
  /\ race' = [race EXCEPT ![e].pc = "written", ![e].fd = 0]
  /\ last' = NoRun
  /\ UNCHANGED <<fs, allowDir, denyDir, trustDir, cfg, shellEnv>>

\* os.Rename(tmpPath, path);
CaSetRenameTo(e, renamed) ==
  /\ stateDir' = renamed.disk
  /\ cfg' = [unreadable |-> cfg.unreadable \cap DOMAIN renamed.disk.inodes]
  /\ race' = [race EXCEPT ![e].pc = IF renamed.ok THEN "done" ELSE "failed"]
  /\ last' = NoRun
  /\ UNCHANGED <<fs, allowDir, denyDir, trustDir, shellEnv>>

CaSetRename(e) ==
  /\ race[e].pc = "written"
  /\ CaSetRenameTo(e, Rename(stateDir, entryPath(race[e].key) \o <<".tmp">>, entryPath(race[e].key), OpenEntryFds({})))

\* a failed rename removes the temporary file and returns the error.
CaSetCleanup(e) ==
  /\ race[e].pc = "failed"
  /\ stateDir' = Remove(stateDir, entryPath(race[e].key) \o <<".tmp">>, OpenEntryFds({}))
  /\ race' = [race EXCEPT ![e].pc = "done", ![e].seterr = "rename cache entry"]
  /\ last' = NoRun
  /\ UNCHANGED <<fs, allowDir, denyDir, trustDir, cfg, shellEnv>>

\* Evaluate returns the result and a nil error: the error of Set is dropped.
CaReturn(e) ==
  /\ race[e].pc = "done"
  /\ race' = [race EXCEPT ![e] = NoEvaluate]
  /\ last' = [op |-> "Evaluate", env |-> race[e].env, key |-> race[e].key, found |-> race[e].found,
              hit |-> race[e].hit, result |-> race[e].result, err |-> "", seterr |-> race[e].seterr,
              alone |-> race[e].alone]
  /\ UNCHANGED <<fs, allowDir, denyDir, trustDir, cfg, shellEnv, stateDir>>

\* Between calls the file of an entry is removed, made unreadable, cut
\* short, overwritten with bytes that are no JSON, or overwritten with `{}`.
CaDamageTo(name, how, n) ==
  /\ stateDir' =
       IF how = "remove" THEN Remove(stateDir, name, {})
       ELSE IF how = "chmod" THEN stateDir
       ELSE IF how = "garbage" THEN [stateDir EXCEPT !.inodes[stateDir.names[name]] = Garbage]
       ELSE IF how = "empty object" THEN [stateDir EXCEPT !.inodes[stateDir.names[name]] = entryMarshal(ZeroEntry)]
       ELSE [stateDir EXCEPT !.inodes[stateDir.names[name]] = IF n < Len(@) THEN SubSeq(@, 1, n) ELSE @]
  /\ cfg' = [unreadable |-> IF how = "chmod" THEN cfg.unreadable \cup {stateDir.names[name]}
                            ELSE IF how = "remove" THEN cfg.unreadable \ {stateDir.names[name]}
                            ELSE cfg.unreadable]
  /\ stateDir' # stateDir \/ cfg' # cfg
  /\ last' = NoRun
  /\ UNCHANGED <<fs, allowDir, denyDir, trustDir, shellEnv, race>>

CaDamage ==
  /\ \A e \in Evaluators : race[e].pc = "idle"
  /\ entryPath(KeyOf(shellEnv)) \in DOMAIN stateDir.names
  /\ \E how \in {"remove", "chmod", "garbage", "empty object", "truncate"}, n \in 0..MaxStamp :
       CaDamageTo(entryPath(KeyOf(shellEnv)), how, n)

NextCache ==
  \/ \E e \in Evaluators : CaGet(e)
  \/ \E e \in Evaluators : CaSetOpen(e)
  \/ \E e \in Evaluators : CaSetWrite(e)
  \/ \E e \in Evaluators : CaSetRename(e)
  \/ \E e \in Evaluators : CaSetCleanup(e)
  \/ \E e \in Evaluators : CaReturn(e)
  \/ CaDamage

SpecCache == InitCache /\ [][NextCache]_vars

\* ------------------------------------------------------------------------
\* SpecCheckEval: one script of an export run from NewRC to the end of
\* Evaluate, with the user editing the file meanwhile.  race holds the
\* record NewRC built and the status the store gave it, and in stored, for
\* every cache.Set so far, the content hash of the key and the bytes bash
\* had sourced; stateDir is the cache.
\* ------------------------------------------------------------------------

NoCheckEval == [pc |-> "idle", rc |-> NoRC, status |-> "", stored |-> {}]

InitCheckEval ==
  /\ fs = [p \in ScriptPaths |-> IF p = PathT THEN RegularFile(<<ByteOf(1)>>) ELSE NoFile]
  /\ allowDir = <<>>
  /\ denyDir = <<>>
  /\ trustDir = <<>>
  /\ cfg = [WhitelistPrefix |-> <<>>]
  /\ shellEnv \in EvalEnvs
  /\ stateDir = <<>>
  /\ race = NoCheckEval
  /\ last = NoRun

\* runExport: envrc.NewRC hashes the file and store.CheckWithWhitelist
\* classifies the record.
CeCheck ==
  /\ race.pc = "idle"
  /\ NewRC(PathT).rc.Exists
  /\ race' = [race EXCEPT !.pc = "checked", !.rc = NewRC(PathT).rc,
                          !.status = CheckWithWhitelist(NewRC(PathT).rc, CfgWhitelister)]
  /\ last' = NoRun
  /\ UNCHANGED <<fs, allowDir, denyDir, trustDir, cfg, shellEnv, stateDir>>

\* A record that is not Allowed is not evaluated.
CeSkip ==
  /\ race.pc = "checked"
  /\ race.status # "Allowed"
  /\ race' = [race EXCEPT !.pc = "idle", !.rc = NoRC, !.status = ""]
  /\ last' = [op |-> "skip", rc |-> race.rc, status |-> race.status]
  /\ UNCHANGED <<fs, allowDir, denyDir, trustDir, cfg, shellEnv, stateDir>>

\* Evaluate on an Allowed record: a cache hit, or bash sourcing rc.Path as
\* the file is then, and cache.Set under the key of the record.
CeEvaluateCall(rc, key, sourced) ==
  IF CacheGet(stateDir, key).ok
  THEN /\ last' = [op |-> "Evaluate", rc |-> rc, status |-> race.status, hit |-> TRUE, sourced |-> <<>>,
                   result |-> CacheGet(stateDir, key).result[1]]
       /\ race' = [race EXCEPT !.pc = "idle", !.rc = NoRC, !.status = ""]
       /\ UNCHANGED stateDir
  ELSE /\ last' = [op |-> "Evaluate", rc |-> rc, status |-> race.status, hit |-> FALSE, sourced |-> sourced,
                   result |-> Evaluate(rc, shellEnv)]
       /\ race' = [race EXCEPT !.pc = "idle", !.rc = NoRC, !.status = "",
                               !.stored = @ \cup {[hash |-> rc.ContentHash, sourced |-> sourced]}]
       /\ stateDir' = CacheSet(stateDir, key, Evaluate(rc, shellEnv), rc.Path)

CeEvaluate ==
  /\ race.pc = "checked"
  /\ race.status = "Allowed"
  /\ fs[PathT].kind = "file"
  /\ CeEvaluateCall(race.rc, KeyOfRC(race.rc, shellEnv), ReadFile(race.rc.Path))
  /\ UNCHANGED <<fs, allowDir, denyDir, trustDir, cfg, shellEnv>>

\* The user edits the script, at any moment.
CeWrite ==
  /\ \E bytes \in Contents : WriteScript(PathT, bytes)
  /\ last' = NoRun
  /\ UNCHANGED <<shellEnv, stateDir, race>>

CeAllow ==
  /\ Allow(PathT, "none")
  /\ allowDir' # allowDir
  /\ last' = NoRun
  /\ UNCHANGED <<shellEnv, stateDir, race>>

CeRevoke ==
  /\ Revoke(PathT, FALSE, FALSE)
  /\ allowDir' # allowDir
  /\ last' = NoRun
  /\ UNCHANGED <<shellEnv, stateDir, race>>

NextCheckEval == CeCheck \/ CeSkip \/ CeEvaluate \/ CeWrite \/ CeAllow \/ CeRevoke

SpecCheckEval == InitCheckEval /\ [][NextCheckEval]_vars

\* ------------------------------------------------------------------------
\* SpecSource: Evaluate, with the cache, on the script PathT, which calls
\* source_env or source_env_if_exists on the script PathTO of the sibling
\* directory and then exports a variable of its own.  stateDir is the cache;
\* the input environment is shellEnv.
\* ------------------------------------------------------------------------

\* The bytes of the two calling scripts:
\*   source_env ../to;              export s="$CASCADE_DIR"
\*   source_env_if_exists ../to/.envrc;  export i="$CASCADE_DIR"
SourceEnvBytes == <<"s">>
SourceIfExistsBytes == <<"i">>

\* Variant: only a Denied target is refused.
runCheck_UnlessDenied(path) ==
  IF NewRC(path).err THEN 1
  ELSE IF CheckWithWhitelist(NewRC(path).rc, CfgWhitelister) # "Denied" THEN 0 ELSE 1

\* `cascade check --silent <path>`: the exit status.
runCheck(path) ==
  IF NewRC(path).err THEN 1
  ELSE IF CheckWithWhitelist(NewRC(path).rc, CfgWhitelister) = "Allowed" THEN 0 ELSE 1

\* `source file` of a script of the tree: it exports its variable with the
\* value of CASCADE_DIR.
BashSource(file, env) == MapSet(env, ScriptVar(ReadFile(file)), env[CASCADE_DIR])

\* What a stdlib function leaves: its return status, the environment, the
\* lines of log_error and the files sourced.
Returned(ret, env, stderr, sourced) == [ret |-> ret, env |-> env, stderr |-> stderr, sourced |-> sourced]

\* source_env <dir>
source_env(targetDir, env) ==
  IF fs[Join(targetDir, envrcName)].kind # "file"
  THEN Returned(1, env, <<<<".envrc not found in", targetDir>>>>, <<>>)
  ELSE IF runCheck(Join(targetDir, envrcName)) # 0
  THEN Returned(1, env, <<<<"is not allowed", Join(targetDir, envrcName)>>>>, <<>>)
  ELSE Returned(0, MapSet(BashSource(Join(targetDir, envrcName), MapSet(env, CASCADE_DIR, targetDir)), CASCADE_DIR, env[CASCADE_DIR]),
                <<>>, <<Join(targetDir, envrcName)>>)

\* source_env_if_exists <file>
source_env_if_exists(file, env) ==
  IF fs[file].kind # "file" THEN Returned(0, env, <<>>, <<>>)
  ELSE IF runCheck(file) # 0
  THEN Returned(1, env, <<<<"is not allowed", file>>>>, <<>>)
  ELSE Returned(0, BashSource(file, env), <<>>, <<file>>)

\* The first command of the calling script.
FirstCommand(bytes, env) ==
  IF bytes = SourceEnvBytes THEN source_env(DirTO, env) ELSE source_env_if_exists(PathTO, env)

\* __main__ <rc.Path> under `set -e`: a failing command ends the shell with
\* its status; the exit trap dumps the environment either way.
BashMain(rc, inputEnv, first) ==
  IF first.ret # 0
  THEN [ret |-> first.ret, json |-> DumpJSON(first.env), stderr |-> first.stderr, sourced |-> <<rc.Path>>]
  ELSE [ret |-> 0, json |-> DumpJSON(BashSource(rc.Path, first.env)), stderr |-> <<>>,
        sourced |-> <<rc.Path>> \o first.sourced]

\* The bash child of Evaluate.
BashChild(rc, inputEnv) ==
  BashMain(rc, inputEnv, FirstCommand(ReadFile(rc.Path), MapSet(inputEnv, CASCADE_DIR, rc.Dir)))

\* Evaluate from the exit of the child on: (result, err).
EvaluateChild(child) ==
  IF child.ret # 0 THEN [result |-> <<>>, err |-> "bash exited with status"]
  ELSE [result |-> <<EvResult(child.json)>>, err |-> ""]

\* Evaluate without a cache.
EvaluateNoCache(rc, inputEnv) == EvaluateChild(BashChild(rc, inputEnv))

InitSource ==
  /\ fs \in {[p \in ScriptPaths |-> IF p = PathT THEN RegularFile(bytes)
                                    ELSE IF p = PathTO THEN RegularFile(<<ByteOf(1)>>) ELSE NoFile] :
               bytes \in {SourceEnvBytes, SourceIfExistsBytes}}
  /\ allowDir = <<>>
  /\ denyDir = <<>>
  /\ trustDir = <<>>
  /\ cfg = [WhitelistPrefix |-> <<>>]
  /\ shellEnv \in EvalEnvs
  /\ stateDir = <<>>
  /\ race = <<>>
  /\ last = NoRun

\* Evaluate with the cache, as an export run calls it on an Allowed script.
SrcEvaluateCall(rc, key, child) ==
  /\ last' = [op |-> "Evaluate", hit |-> CacheGet(stateDir, key).ok,
              targetIs |-> IF fs[PathTO].kind # "file" THEN "missing" ELSE Check(NewRC(PathTO).rc),
              nocache |-> EvaluateChild(child)]
             @@ (IF CacheGet(stateDir, key).ok
                 THEN [result |-> CacheGet(stateDir, key).result, err |-> "", stderr |-> <<>>, sourced |-> <<>>]
                 ELSE [result |-> EvaluateChild(child).result, err |-> EvaluateChild(child).err,
                       stderr |-> child.stderr, sourced |-> child.sourced])
  /\ stateDir' = IF ~CacheGet(stateDir, key).ok /\ child.ret = 0
                 THEN CacheSet(stateDir, key, EvResult(child.json), rc.Path) ELSE stateDir

SrcEvaluate ==
  /\ IsAllowed(NewRC(PathT).rc)
  /\ SrcEvaluateCall(NewRC(PathT).rc, KeyOfRC(NewRC(PathT).rc, shellEnv), BashChild(NewRC(PathT).rc, shellEnv))
  /\ UNCHANGED <<fs, allowDir, denyDir, trustDir, cfg, shellEnv, race>>

SrcAllow ==
  /\ \E p \in {PathT, PathTO} : Allow(p, "none")
  /\ last' = NoRun
  /\ UNCHANGED <<shellEnv, stateDir, race>>

SrcDeny ==
  /\ Deny(PathTO, "none")
  /\ last' = NoRun
  /\ UNCHANGED <<shellEnv, stateDir, race>>

SrcRevoke ==
  /\ Revoke(PathTO, FALSE, FALSE)
  /\ last' = NoRun
  /\ UNCHANGED <<shellEnv, stateDir, race>>

\* The user edits or removes the sourced script.
SrcWrite ==
  /\ \E bytes \in Contents : WriteScript(PathTO, bytes)
  /\ last' = NoRun
  /\ UNCHANGED <<shellEnv, stateDir, race>>

SrcRemove ==
  /\ RemoveScript(PathTO)
  /\ last' = NoRun
  /\ UNCHANGED <<shellEnv, stateDir, race>>

NextSource == SrcEvaluate \/ SrcAllow \/ SrcDeny \/ SrcRevoke \/ SrcWrite \/ SrcRemove

SpecSource == InitSource /\ [][NextSource]_vars

\* ------------------------------------------------------------------------
\* SpecReedit: allow, deny, revoke and edits of one script, with the progress
\* of the sequence "allow content A, edit to another content, deny, revoke,
\* edit back to A" kept in race: n counts the steps of the sequence the
\* behaviour has just made, A is the content that was allowed
\* ------------------------------------------------------------------------

NoProgress == [n |-> 0, A |-> <<>>]

\* The progress after a command named op that returned err on a script whose
\* bytes are now `bytes`.
Progress(prev, op, err, bytes) ==
  IF op = "Allow" /\ err = "" THEN [n |-> 1, A |-> bytes]
  ELSE IF prev.n = 1 /\ op = "WriteScript" /\ bytes # prev.A THEN [prev EXCEPT !.n = 2]
  ELSE IF prev.n = 2 /\ op = "Deny" /\ err = "" THEN [prev EXCEPT !.n = 3]
  ELSE IF prev.n = 3 /\ op = "Revoke" /\ err = "" THEN [prev EXCEPT !.n = 4]
  ELSE IF prev.n = 4 /\ op = "WriteScript" /\ bytes = prev.A THEN [prev EXCEPT !.n = 5]
  ELSE NoProgress

InitReedit ==
  /\ fs = [p \in ScriptPaths |-> NoFile]
  /\ allowDir = <<>>
  /\ denyDir = <<>>
  /\ trustDir = <<>>
  /\ cfg = [WhitelistPrefix |-> <<>>]
  /\ shellEnv = BaseEnv
  /\ stateDir = <<>>
  /\ race = NoProgress
  /\ last = NoRet

ReAllow ==
  \E f \in FailPoints :
    /\ Allow(PathT, f)
    /\ last' = Ret("Allow", PathT, NewRC(PathT).rc, AllowResult(NewRC(PathT).rc, f).err)
    /\ race' = Progress(race, "Allow", AllowResult(NewRC(PathT).rc, f).err, fs[PathT].bytes)
    /\ UNCHANGED <<shellEnv, stateDir>>

ReDeny ==
  \E f \in FailPoints :
    /\ Deny(PathT, f)
    /\ last' = Ret("Deny", PathT, NewRC(PathT).rc, DenyResult(NewRC(PathT).rc, f).err)
    /\ race' = Progress(race, "Deny", DenyResult(NewRC(PathT).rc, f).err, fs[PathT].bytes)
    /\ UNCHANGED <<shellEnv, stateDir>>

ReRevoke ==
  \E fa \in BOOLEAN, fd \in BOOLEAN :
    /\ Revoke(PathT, fa, fd)
    /\ last' = Ret("Revoke", PathT, NewRC(PathT).rc, RevokeResult(NewRC(PathT).rc, fa, fd).err)
    /\ race' = Progress(race, "Revoke", RevokeResult(NewRC(PathT).rc, fa, fd).err, fs[PathT].bytes)
    /\ UNCHANGED <<shellEnv, stateDir>>

ReWrite ==
  \E b \in Contents :
    /\ WriteScript(PathT, b)
    /\ last' = Ret("WriteScript", PathT, NoRC, "")
    /\ race' = Progress(race, "WriteScript", "", b)
    /\ UNCHANGED <<shellEnv, stateDir>>

NextReedit ==
  \/ ReAllow
  \/ ReDeny
  \/ ReRevoke
  \/ ReWrite

SpecReedit == InitReedit /\ [][NextReedit]_vars

\* ------------------------------------------------------------------------
\* SpecZsh: an interactive zsh that evaluates the output of `cascade hook
\* zsh`. race holds the shell's parameters, last the hook invocations made
\* since the previous prompt was shown, stateDir the number of export runs
\* ------------------------------------------------------------------------

MaxPrompts == 3
MaxChdir == 2

\* An unset parameter expands to the empty string: <<>>; a set counter n is
\* <<n>>.
Unset == <<>>

\* (( ++_cascade_prompt_seq ))
Num(param) == IF Len(param) = 0 THEN 0 ELSE param[1]

cascade_precmd_seq(sh) == [sh EXCEPT !.prompt_seq = <<Num(sh.prompt_seq) + 1>>]

\* _cascade_hook: returns at once when it already ran under this sequence
\* number, else records the number and evaluates `cascade export zsh`.
cascade_hook(sh) ==
  IF sh.last_run = sh.prompt_seq
  THEN [sh EXCEPT !.ran = FALSE]
  ELSE [sh EXCEPT !.last_run = sh.prompt_seq, !.ran = TRUE]

Index(array, name) == \E i \in DOMAIN array : array[i] = name

\* The registration part of the hook script.
Register(sh) ==
  LET pre1 == IF ~Index(sh.precmd_functions, "_cascade_precmd_seq")
              THEN <<"_cascade_precmd_seq">> \o sh.precmd_functions
              ELSE sh.precmd_functions
      pre2 == IF ~Index(pre1, "_cascade_hook") THEN Append(pre1, "_cascade_hook") ELSE pre1
      ch   == IF ~Index(sh.chpwd_functions, "_cascade_hook")
              THEN <<"_cascade_hook">> \o sh.chpwd_functions
              ELSE sh.chpwd_functions
  IN [sh EXCEPT !.precmd_functions = pre2, !.chpwd_functions = ch]

\* zsh calls the functions of a hook array in order; the result holds the
\* parameters afterwards and one log entry per call of _cascade_hook.
RECURSIVE CallAll(_, _, _, _, _)
CallAll(array, i, sh, by, log) ==
  IF i > Len(array) THEN [sh |-> sh, log |-> log]
  ELSE IF array[i] = "_cascade_precmd_seq"
  THEN CallAll(array, i + 1, cascade_precmd_seq(sh), by, log)
  ELSE IF array[i] = "_cascade_hook"
  THEN CallAll(array, i + 1, cascade_hook(sh), by,
               Append(log, [by |-> by, ran |-> cascade_hook(sh).ran]))
  ELSE CallAll(array, i + 1, sh, by, log)

Exports(log) == Cardinality({i \in DOMAIN log : log[i].ran})

\* The invocations of the prompt cycle the next event belongs to: a command
\* typed at a prompt starts a new cycle.
CycleLog == IF last.op = "precmd" THEN <<>> ELSE last.cycle

Chdirs == Cardinality({i \in DOMAIN CycleLog : CycleLog[i].by = "chpwd"})

InitZsh ==
  /\ fs = [p \in ScriptPaths |-> NoFile]
  /\ allowDir = <<>>
  /\ denyDir = <<>>
  /\ trustDir = <<>>
  /\ cfg = [WhitelistPrefix |-> <<>>]
  /\ shellEnv = BaseEnv
  /\ stateDir = 0
  /\ \E pre \in {<<>>, <<"other">>}, ch \in {<<>>, <<"other">>} :
       race = [precmd_functions |-> pre, chpwd_functions |-> ch,
               prompt_seq |-> Unset, last_run |-> Unset, ran |-> FALSE]
  /\ last = [op |-> "init", cycle |-> <<>>, sourced |-> 0]

\* eval "$(cascade hook zsh)", in .zshrc or typed again later.
ZshSourceHook ==
  /\ last.sourced < 2
  /\ race' = Register(race)
  /\ last' = [op |-> "source", cycle |-> CycleLog, sourced |-> last.sourced + 1]
  /\ UNCHANGED <<fs, allowDir, denyDir, trustDir, cfg, shellEnv, stateDir>>

\* A command changes the directory: zsh calls chpwd_functions.
ZshChdirCall(called) ==
  /\ race' = called.sh
  /\ last' = [last EXCEPT !.op = "chpwd", !.cycle = called.log]
  /\ stateDir' = stateDir + Exports(called.log) - Exports(CycleLog)
  /\ UNCHANGED <<fs, allowDir, denyDir, trustDir, cfg, shellEnv>>

ZshChdir ==
  /\ Chdirs < MaxChdir
  /\ ZshChdirCall(CallAll(race.chpwd_functions, 1, race, "chpwd", CycleLog))

\* The command line is done: zsh calls precmd_functions and shows the prompt.
ZshPrecmdCall(called) ==
  /\ race' = called.sh
  /\ last' = [last EXCEPT !.op = "precmd", !.cycle = called.log]
  /\ stateDir' = stateDir + Exports(called.log) - Exports(CycleLog)
  /\ UNCHANGED <<fs, allowDir, denyDir, trustDir, cfg, shellEnv>>

ZshPrecmd ==
  /\ Num(race.prompt_seq) < MaxPrompts
  /\ stateDir < MaxPrompts
  /\ ZshPrecmdCall(CallAll(race.precmd_functions, 1, race, "precmd", CycleLog))

NextZsh ==
  \/ ZshSourceHook
  \/ ZshChdir
  \/ ZshPrecmd

SpecZsh == InitZsh /\ [][NextZsh]_vars

\* ========================================================================
\* Properties
\* ========================================================================

\* p is dir itself or lies below it: dir, a separator, and more.
UnderDir(p, dir) == p = dir \/ HasPrefix(p, dir \o <<Separator>>)

\* The cleaned whitelist prefixes of the configurations the model uses.
WhitelistDirs == IF cfg.WhitelistPrefix = <<>> THEN {} ELSE {DirT}

\* The tiers of section 4.B, in priority order, and the outcome of each.
TierHolds(i, rc, wl) ==
  CASE i = 1 -> PathHash(rc.Path) \in DOMAIN denyDir
    [] i = 2 -> rc.ContentHash \in DOMAIN allowDir
    [] i = 3 -> \E n \in DOMAIN trustDir : UnderDir(rc.Path, trustDir[n])
    [] i = 4 -> wl # NilWhitelister /\ \E d \in WhitelistDirs : UnderDir(rc.Path, d)
    [] OTHER -> TRUE

TierOutcome == <<"Denied", "Allowed", "Allowed", "Allowed", "NotAllowed">>

FirstTier(rc, wl) ==
  CHOOSE i \in 1..5 : TierHolds(i, rc, wl) /\ \A j \in 1..(i - 1) : ~TierHolds(j, rc, wl)

\* C1: for every store state and every script record, Check and
\* CheckWithWhitelist return the outcome of the first tier that applies:
\* deny entry, allow entry, trusted subtree, whitelist, else NotAllowed.
C1_Precedence ==
  \A p \in StorePaths :
    ~NewRC(p).err =>
      \A wl \in {NilWhitelister, CfgWhitelister} :
        CheckWithWhitelist(NewRC(p).rc, wl) = TierOutcome[FirstTier(NewRC(p).rc, wl)]

\* A record that has a deny entry, an allow entry for its current content, a
\* trusted subtree above it and a whitelisted prefix, and is Denied.
C1_Witness ==
  LET rc == NewRC(PathT).rc IN
  /\ rc.Exists
  /\ \A i \in 1..4 : TierHolds(i, rc, CfgWhitelister)
  /\ CheckWithWhitelist(rc, CfgWhitelister) = "Denied"
  /\ Check(NewRC(PathTO).rc) = "NotAllowed"

\* The scripts of the chain the last export run walked: one per directory
\* from the home directory down to the working directory, or the working
\* directory's own when it is not under the home directory.
ChainScripts ==
  LET cwd == shellEnv[PWD] IN
  IF UnderDir(cwd, Home)
  THEN {Join(d, envrcName) : d \in {x \in {DirH, DirT, DirTO} : UnderDir(x, Home) /\ UnderDir(cwd, x)}}
  ELSE {Join(cwd, envrcName)}

StatusOf(p) == CheckWithWhitelist(NewRC(p).rc, CfgWhitelister)

DeniedInChain == {p \in ChainScripts : Lstat(p) /\ StatusOf(p) = "Denied"}

CountIn(seq, x) == Cardinality({i \in 1..Len(seq) : seq[i] = x})

InSeq(seq, x) == \E i \in 1..Len(seq) : seq[i] = x

\* The transcript sets variable k; it sets k to v; it restores k to the
\* previous value that the diff the run reverted holds for it.
Sets(k) == k \in DOMAIN last.stdout /\ last.stdout[k] # <<>>

SetsTo(k, v) == k \in DOMAIN last.stdout /\ last.stdout[k] = <<v>>

RestoresPrev(k) ==
  /\ last.revertPath
  /\ last.reverted
  /\ k \in DOMAIN last.revertedDiff[1].Prev
  /\ SetsTo(k, last.revertedDiff[1].Prev[k])

\* The transcript sets the variable of script p to the value p gives it.
SetsByScript(p) == SetsTo(ScriptVar(fs[p].bytes), Dir(p))

\* C2: in every export run in which an existing script of the chain is
\* Denied, no script is evaluated, stderr has exactly one "is blocked" line
\* per denied script and none for any other, and the run takes the revert
\* path: the transcript sets a variable only to restore the previous value
\* of the diff it reverts, and with a prior diff in the session it
\* restores the diff's previous values and unsets the CASCADE_* variables.
C2_DeniedBlocksAll ==
  (last.op = "export" /\ DeniedInChain # {}) =>
    /\ last.evaluated = <<>>
    /\ \A p \in DeniedInChain : CountIn(last.stderr, <<"is blocked", p>>) = 1
    /\ \A i \in 1..Len(last.stderr) :
         last.stderr[i][1] = "is blocked" => last.stderr[i][2] \in DeniedInChain
    /\ last.revertPath
    /\ \A k \in DOMAIN last.stdout :
         Sets(k) => (k \notin CascadeVars /\ RestoresPrev(k))
    /\ ~IsEmpty(last.prevDiff) =>
         /\ last.reverted
         /\ last.revertedDiff = last.prevDiff
         /\ \A k \in CascadeVars : k \notin DOMAIN shellEnv
         /\ \A k \in DOMAIN last.prevDiff[1].Prev :
              IF last.prevDiff[1].Prev[k] = <<>> THEN k \notin DOMAIN shellEnv
              ELSE k \in DOMAIN shellEnv /\ shellEnv[k] = last.prevDiff[1].Prev[k]

\* An export run in the project directory whose script is Denied and lies
\* under a trusted subtree, while the home script is Allowed and the session
\* holds a prior diff: nothing was evaluated and the diff was reverted.
C2_Witness ==
  /\ last.op = "export"
  /\ shellEnv[PWD] = DirT
  /\ DeniedInChain = {PathT}
  /\ IsTrustedSubtree(PathT)
  /\ StatusOf(PathH) = "Allowed"
  /\ last.allowed = <<PathH>>
  /\ ~IsEmpty(last.prevDiff)
  /\ last.evaluated = <<>>
  /\ last.reverted

\* The content hash of section 3, and the contents of p that have an allow
\* entry.
SpecHash(p, b) == Sha256(p \o <<"\n">> \o b)

AllowedContents(p) == {b \in Contents : SpecHash(p, b) \in DOMAIN allowDir}

\* Allow has written an entry for p, p's current content has no allow entry,
\* and neither a deny entry, nor trust, nor the whitelist applies to p.
ChangedSinceAllow(p) ==
  /\ fs[p].kind = "file"
  /\ \E n \in DOMAIN allowDir : allowDir[n] = p
  /\ fs[p].bytes \notin AllowedContents(p)
  /\ Sha256(p) \notin DOMAIN denyDir
  /\ ~IsTrustedSubtree(p)
  /\ ~IsWhitelisted(cfg.WhitelistPrefix, p)

\* What C3 says of a script p that was allowed and whose current content has
\* no allow entry, and of one whose current content has: named is whether stderr must name p as not allowed.
ContentChange(p, named) ==
  /\ ChangedSinceAllow(p) =>
       /\ Check(NewRC(p).rc) = "NotAllowed"
       /\ (last.op = "export" /\ p \in ChainScripts) =>
            /\ ~InSeq(last.evaluated, p)
            /\ (SetsByScript(p) => RestoresPrev(ScriptVar(fs[p].bytes)))
            /\ named => InSeq(last.stderr, <<"is not allowed", p>>)
  /\ (fs[p].kind = "file" /\ fs[p].bytes \in AllowedContents(p)
      /\ Sha256(p) \notin DOMAIN denyDir) =>
       /\ Check(NewRC(p).rc) = "Allowed"
       /\ (last.op = "export" /\ p \in ChainScripts /\ last.denied = <<>>
           /\ ~(\E i \in DOMAIN last.stderr : last.stderr[i][1] = "error evaluating")) =>
            InSeq(last.evaluated, p)

\* C3 as stated: a script that was allowed and whose bytes were changed to a
\* content with no allow entry is NotAllowed, the next export run
\* neither evaluates it nor sets its variables and names it on stderr as not
\* allowed, until Allow is run on the new content.
C3_Original == \A p \in ExportPaths : ContentChange(p, TRUE)

\* C3 as amended: the same, except that stderr names the script as not
\* allowed only in a run in which no script of the chain is Denied.
C3_Amended == \A p \in ExportPaths : ContentChange(p, last.denied = <<>>)

\* An export run after the project script, allowed with another content, was
\* rewritten: the home script was evaluated, the project script was not and
\* is named on stderr.
C3_Witness ==
  /\ last.op = "export"
  /\ shellEnv[PWD] = DirT
  /\ ChangedSinceAllow(PathT)
  /\ last.evaluated = <<PathH>>
  /\ InSeq(last.stderr, <<"is not allowed", PathT>>)
  /\ ~SetsByScript(PathT)

\* x is a regular file, the one allow entry is the entry of x's current
\* content and was written by Allow on x, nothing is denied, y is not under a trusted subtree, and y exists and names the same
\* bytes as x.
AllowedOnlyX(x, y) ==
  /\ x # y
  /\ fs[x].kind = "file"
  /\ Stat(allowDir, NewRC(x).rc.ContentHash)
  /\ DOMAIN allowDir = {NewRC(x).rc.ContentHash}
  /\ \A n \in DOMAIN allowDir : allowDir[n] = x
  /\ DOMAIN denyDir = {}
  /\ ~IsTrustedSubtree(y)
  /\ Lstat(y)
  /\ EvalSymlinks(y).ok
  /\ fs[EvalSymlinks(y).path].bytes = fs[x].bytes

LastChecks(st) ==
  /\ Check(last.rc) = st
  /\ CheckWithWhitelist(last.rc, CfgWhitelister) = st

\* C5: after Deny(rc) returns without error, Check(rc) is Denied and the
\* allow entry of rc's content hash is absent, whatever held before.
C5_DenyPost ==
  (last.op = "Deny" /\ last.err = "") =>
    /\ LastChecks("Denied")
    /\ ~Stat(allowDir, last.rc.ContentHash)

\* Deny has returned nil on a script that had an allow entry, lies under a
\* trusted subtree and is whitelisted.
C5_Witness ==
  /\ last.op = "Deny" /\ last.err = ""
  /\ last.rc.Exists
  /\ last.pre.allow
  /\ IsTrustedSubtree(last.rc.Path)
  /\ IsWhitelisted(cfg.WhitelistPrefix, last.rc.Path)
  /\ C5_DenyPost

C6_AllowPost ==
  (last.op = "Allow" /\ last.err = "") =>
    /\ last.rc.Exists
    /\ Stat(allowDir, last.rc.ContentHash)
    /\ ~Stat(denyDir, PathHash(last.rc.Path))
    /\ LastChecks("Allowed")

C6_AllowMissing ==
  (last'.op = "Allow" /\ ~last'.rc.Exists) =>
    /\ last'.err # ""
    /\ UNCHANGED <<fs, allowDir, denyDir, trustDir, cfg>>

\* C6: after Allow(rc) returns without error on an existing script the
\* allow entry exists, the deny entry is absent and Check(rc) is Allowed,
\* whatever entries existed before; Allow on a non-existent script fails and
\* changes nothing.
C6_Allow == []C6_AllowPost /\ [][C6_AllowMissing]_vars

\* Allow has returned nil on a script that had a deny entry and no allow
\* entry when it was called.
C6_Witness ==
  /\ last.op = "Allow" /\ last.err = ""
  /\ last.pre.deny /\ ~last.pre.allow
  /\ C6_AllowPost

\* C7: once Deny has completed, Check returns Denied for that path across
\* every change of the file's bytes (and every other step) until an Allow or
\* a Revoke on that path: a script that was Denied when a command other than
\* Allow and Revoke was called is Denied when it returns.
C7_DenySurvives ==
  (last.wasDenied /\ last.op \notin {"Allow", "Revoke"}) => DeniedT

\* The script's bytes were just rewritten, its current content has an allow
\* entry, and it is still Denied.
C7_Witness ==
  /\ last.op = "WriteScript"
  /\ last.wasDenied
  /\ fs[PathT].kind = "file"
  /\ Stat(allowDir, NewRC(PathT).rc.ContentHash)
  /\ DeniedT

\* Neither entry of the last command's record exists, and Check is
\* NotAllowed unless trust or whitelist applies.
RevokePost ==
  /\ ~Stat(allowDir, last.rc.ContentHash)
  /\ ~Stat(denyDir, PathHash(last.rc.Path))
  /\ Check(last.rc) =
       (IF IsTrustedSubtree(last.rc.Path) THEN "Allowed" ELSE "NotAllowed")
  /\ CheckWithWhitelist(last.rc, CfgWhitelister) =
       (IF IsTrustedSubtree(last.rc.Path)
           \/ IsWhitelisted(cfg.WhitelistPrefix, last.rc.Path)
        THEN "Allowed" ELSE "NotAllowed")

\* Revoke returns nil when it was called with either entry missing.
RevokeMissingOk ==
  (last.op = "Revoke" /\ ~last.pre.allow /\ ~last.pre.deny) => last.err = ""

Probes ==
  ScriptPaths \cup {DirH, DirT, DirTO, <<Separator>>,
                    DirT \o <<Separator, "s">>,
                    DirT \o <<Separator, "s", Separator>> \o envrcName}

\* C9: a path is under a trusted subtree, and under a whitelisted prefix,
\* iff it equals the directory or has the directory followed by a separator
\* as a prefix; a sibling whose name starts with the directory's name is not;
\* after UntrustSubtree the subtree allows nothing.
C9_Boundary ==
  /\ \A p \in Probes :
       /\ IsTrustedSubtree(p) <=> \E n \in DOMAIN trustDir : UnderDir(p, trustDir[n])
       /\ IsWhitelisted(cfg.WhitelistPrefix, p) <=> \E d \in WhitelistDirs : UnderDir(p, d)
  /\ (DirT \in ListTrustedSubtrees /\ DirH \notin ListTrustedSubtrees)
       => ~IsTrustedSubtree(PathTO)
  /\ (last.op = "UntrustSubtree" /\ last.err = "") =>
       /\ last.path \notin ListTrustedSubtrees
       /\ \A p \in ScriptPaths :
            Check(NewRC(p).rc) = "Allowed" =>
              \/ Stat(allowDir, NewRC(p).rc.ContentHash)
              \/ \E t \in ListTrustedSubtrees : t # last.path /\ UnderDir(p, t)

\* DirH was untrusted and DirT still is: PathT is trusted and whitelisted,
\* its sibling PathTO is neither.
C9_Witness ==
  /\ last.op = "UntrustSubtree" /\ last.err = "" /\ last.path = DirH
  /\ ListTrustedSubtrees = {DirT}
  /\ IsTrustedSubtree(PathT) /\ ~IsTrustedSubtree(PathTO)
  /\ IsWhitelisted(cfg.WhitelistPrefix, PathT)
  /\ ~IsWhitelisted(cfg.WhitelistPrefix, PathTO)

\* The allow and the deny command of the race have both returned nil.
BothReturned ==
  /\ race.allow.at = "done" /\ race.allow.err = ""
  /\ race.deny.at = "done" /\ race.deny.err = ""

\* C10: under every interleaving of the filesystem steps of a concurrent
\* Allow and Deny on the same script, once both have returned Check returns
\* Allowed if Allow finished last and Denied if Deny finished last.
C10_LastFinisherWins ==
  BothReturned =>
    Check(NewRC(PathT).rc) =
      (IF race.finished[2] = "allow" THEN "Allowed" ELSE "Denied")

\* Both allow commands of the pair have returned nil.
BothAllowed ==
  /\ race.allow.at = "done" /\ race.allow.err = ""
  /\ race.allow2.at = "done" /\ race.allow2.err = ""

\* C11: under every interleaving of the steps of two concurrent Allows on
\* the same script, once both have returned the allow entry exists and holds
\* the script's path, the deny entry is absent, and Check returns Allowed.
C11_AllowsConverge ==
  BothAllowed =>
    LET rc == NewRC(PathT).rc IN
    /\ race.allow.rc = rc /\ race.allow2.rc = rc
    /\ Stat(allowDir, rc.ContentHash)
    /\ allowDir[rc.ContentHash] = rc.Path
    /\ ~Stat(denyDir, PathHash(rc.Path))
    /\ Check(rc) = "Allowed"
    /\ CheckWithWhitelist(rc, CfgWhitelister) = "Allowed"

\* Both allows returned nil on a script that was denied when they started,
\* the second to start finishing first.
C11_Witness ==
  /\ BothAllowed
  /\ race.finished = <<"allow2", "allow">>
  /\ last.op = "Deny" /\ last.err = ""
  /\ Check(NewRC(PathT).rc) = "Allowed"

\* Both updates of an Allow that returned nil are visible to Check.
AllowAtomic ==
  (last.op = "Allow" /\ last.err = "") =>
    /\ EntriesOf(last.rc) = [allow |-> TRUE, deny |-> FALSE]
    /\ LastChecks("Allowed")

RECURSIVE RCsOf(_)
RCsOf(paths) == IF paths = <<>> THEN <<>> ELSE <<NewRC(Head(paths)).rc>> \o RCsOf(Tail(paths))

Configured(paths, e) == Filtered(EvaluateAll(RCsOf(paths), Filtered(e), 0).env)

\* The shell holds the newly configured environment: the session variables
\* are set and name the last evaluated script, the other variables are what
\* the evaluated scripts produce from the environment of a new shell.
NewlyConfigured ==
  /\ last.evaluated # <<>>
  /\ {CASCADE_DIFF, CASCADE_DIR, CASCADE_FILE} \subseteq DOMAIN shellEnv
  /\ shellEnv[CASCADE_FILE] = last.evaluated[Len(last.evaluated)]
  /\ shellEnv[CASCADE_DIR] = Dir(shellEnv[CASCADE_FILE])
  /\ \E e \in BaseEnvs : Filtered(shellEnv) = Configured(last.evaluated, e)

\* The shell holds the reverted baseline with the session variables unset.
RevertedBaseline ==
  /\ \A k \in CascadeVars : k \notin DOMAIN shellEnv
  /\ \E e \in BaseEnvs : Filtered(shellEnv) = Filtered(e)

\* C13: after any export outcome, evaluating the transcript leaves the shell
\* either in the newly configured environment or in the reverted baseline
\* with CASCADE_DIFF, CASCADE_DIR, CASCADE_FILE and CASCADE_WATCHES unset.
C13_WellDefined ==
  (last.op = "export" /\ last.err = "") => (NewlyConfigured \/ RevertedBaseline)

\* A run that reached the evaluation loop and did not fail in it.
Evaluated(run) == run.op = "export" /\ run.err = "" /\ ~run.revertPath

\* C14: of two successive export runs in the same directory, with no change
\* to scripts or authorization between them and the second starting from the
\* shell the first one's transcript left, both evaluating their scripts: the
\* transcripts are identical and both runs compute the same baseline.
C14_NoDrift ==
  [][(Evaluated(last) /\ Evaluated(last') /\ shellEnv'[PWD] = shellEnv[PWD]) =>
       (last'.stdout = last.stdout /\ last'.baseEnv = last.baseEnv)]_vars

\* The last run found no script in the chain, or found only scripts that
\* are neither allowed nor denied.
NothingApplies ==
  /\ last.op = "export" /\ last.err = ""
  /\ last.existing = <<>> \/ (last.allowed = <<>> /\ last.denied = <<>>)

\* The transcript that restores every key of diff to its previous value,
\* unsets it where that value is empty, and unsets the session variables.
RevertTranscript(diff) ==
  [k \in DOMAIN diff[1].Prev \cup CascadeVars |->
     IF k \in CascadeVars \/ diff[1].Prev[k] = <<>> THEN <<>> ELSE <<diff[1].Prev[k]>>]

\* C15: a run in which no script applies prints, when the session carries a
\* non-empty prior diff, the transcript that restores every key of the diff
\* to its previous value (unset where it is empty) and unsets CASCADE_DIFF,
\* CASCADE_DIR, CASCADE_FILE and CASCADE_WATCHES; with no prior diff or an
\* empty one it prints nothing.
C15_RevertOnLeave ==
  NothingApplies =>
    IF ~IsEmpty(last.prevDiff)
    THEN last.stdout = RevertTranscript(last.prevDiff)
    ELSE DOMAIN last.stdout = {}

\* The shell left the project directory for one with no script, with a prior
\* diff that had set a variable unset before: the transcript unsets the
\* variable and the four session variables.
C15_Witness ==
  /\ NothingApplies
  /\ last.existing = <<>>
  /\ ~IsEmpty(last.prevDiff)
  /\ \E k \in DOMAIN last.prevDiff[1].Prev :
       /\ last.prevDiff[1].Prev[k] = <<>>
       /\ last.prevDiff[1].Next[k] = DirT
       /\ last.stdout[k] = <<>>
       /\ k \notin DOMAIN shellEnv
  /\ \A k \in CascadeVars : k \in DOMAIN last.stdout /\ k \notin DOMAIN shellEnv

\* The positions in the last run's evaluation order of the scripts that
\* assign variable k, and the value the deepest of them gives it.
Setters(k) ==
  {i \in 1..Len(last.evaluated) : ScriptVar(fs[last.evaluated[i]].bytes) = k}

Deepest(k) == Dir(last.evaluated[CHOOSE i \in Setters(k) : \A j \in Setters(k) : j <= i])

\* C16: a run that evaluates scripts evaluates every allowed script of the
\* chain, root first; each script's environment is the previous script's
\* output and the first one's is the baseline, so the transcript carries,
\* for every variable, the value the deepest evaluated script that assigns
\* it gives it, unless the baseline already holds that value, and carries no
\* variable that no evaluated script assigns; CASCADE_DIR is the directory
\* of the deepest evaluated script.
C16_ChainOrder ==
  Evaluated(last) =>
    /\ last.evaluated = last.allowed
    /\ \A i \in 1..Len(last.evaluated) :
         /\ last.evaluated[i] \in ChainScripts
         /\ \A j \in 1..Len(last.evaluated) :
              i < j => /\ last.evaluated[i] # last.evaluated[j]
                       /\ UnderDir(Dir(last.evaluated[j]), Dir(last.evaluated[i]))
    /\ \A k \in (DOMAIN last.stdout \cup DOMAIN last.baseEnv
                  \cup {ScriptVar(b) : b \in Contents}) \ CascadeVars :
         IF Setters(k) = {} \/ (k \in DOMAIN last.baseEnv /\ last.baseEnv[k] = Deepest(k))
         THEN k \notin DOMAIN last.stdout
         ELSE SetsTo(k, Deepest(k))
    /\ SetsTo(CASCADE_DIR, Dir(last.evaluated[Len(last.evaluated)]))
    /\ \A p \in ChainScripts :
         (Lstat(p) /\ StatusOf(p) = "Allowed") => InSeq(last.evaluated, p)

\* A run in the project directory that evaluated the home script and then
\* the project script, both assigning the same variable: the transcript
\* carries the project script's value and CASCADE_DIR is the project
\* directory.
C16_Witness ==
  /\ Evaluated(last)
  /\ last.evaluated = <<PathH, PathT>>
  /\ fs[PathH].bytes = fs[PathT].bytes
  /\ SetsTo(ScriptVar(fs[PathT].bytes), DirT)
  /\ SetsTo(CASCADE_DIR, DirT)

\* The existing scripts of the chain that Check classifies as NotAllowed.
NotAllowedInChain == {p \in ChainScripts : Lstat(p) /\ StatusOf(p) = "NotAllowed"}

\* What C17 says of the last export run when it is within scope: every
\* NotAllowed script of the chain has exactly one stderr line, is not
\* evaluated and does not have its assignment in the transcript; every
\* Allowed script of the chain is evaluated, in chain order, and the
\* transcript is the one of a run that did not abort: it sets the session
\* variables and carries the assignments of the evaluated scripts.
SkipsNotAllowed(scope) ==
  (last.op = "export" /\ last.err = "" /\ NotAllowedInChain # {} /\ scope) =>
    /\ \A p \in NotAllowedInChain :
         /\ CountIn(last.stderr, <<"is not allowed", p>>) = 1
         /\ ~InSeq(last.evaluated, p)
         /\ SetsByScript(p) => RestoresPrev(ScriptVar(fs[p].bytes))
    /\ last.evaluated = last.allowed
    /\ \A p \in ChainScripts :
         (Lstat(p) /\ StatusOf(p) = "Allowed") => InSeq(last.evaluated, p)
    /\ last.evaluated # <<>> =>
         /\ ~last.revertPath
         /\ SetsTo(CASCADE_FILE, last.evaluated[Len(last.evaluated)])
         /\ \A i \in 1..Len(last.evaluated) :
              LET k == ScriptVar(fs[last.evaluated[i]].bytes) IN
              \/ SetsTo(k, Deepest(k))
              \/ k \in DOMAIN last.baseEnv /\ last.baseEnv[k] = Deepest(k)

\* C17 as stated: in every export run, each NotAllowed script of the chain
\* produces one stderr line and is skipped, every Allowed script of the
\* chain is still evaluated in order and its variables exported, and no
\* variable of a NotAllowed script reaches the transcript.
C17_Original == SkipsNotAllowed(TRUE)

\* C17 as amended: the same, in the runs in which no script of the chain is
\* Denied and no evaluation of an Allowed script fails.
C17_Amended ==
  SkipsNotAllowed(last.denied = <<>> /\ ~(last.revertPath /\ last.allowed # <<>>))

\* A run in the project directory with the home script NotAllowed and the
\* project script Allowed: stderr names the home script, the project script
\* was evaluated and its assignment and directory are in the transcript.
C17_Witness ==
  /\ last.op = "export"
  /\ NotAllowedInChain = {PathH}
  /\ CountIn(last.stderr, <<"is not allowed", PathH>>) = 1
  /\ last.evaluated = <<PathT>>
  /\ SetsByScript(PathT)
  /\ SetsTo(CASCADE_DIR, DirT)

\* Environment e agrees with the previous values of diff d: a key whose
\* previous value is empty is absent from e, any other key of d has its
\* previous value in e.
Agrees(e, d) ==
  \A k \in DOMAIN d[1].Prev :
    IF d[1].Prev[k] = <<>> THEN k \notin DOMAIN e
    ELSE k \in DOMAIN e /\ e[k] = d[1].Prev[k]

\* C18 as stated: for every environment e and every well-formed diff,
\* applying the diff and then its reverse gives e back.
C18_Original == last.op = "Patch" => last.restored = last.e

\* C18 as amended: the same for every environment that agrees with the
\* diff's previous values on the diff's keys.
C18_Amended ==
  (last.op = "Patch" /\ Agrees(last.e, last.diff)) => last.restored = last.e

\* A diff that adds one key and removes the other was applied to an
\* environment that agrees with it, and its reverse gave the environment
\* back.
C18_Witness ==
  /\ last.op = "Patch"
  /\ Agrees(last.e, last.diff)
  /\ DOMAIN last.diff[1].Prev = DiffKeys
  /\ \E k \in DiffKeys : last.diff[1].Prev[k] = <<>>
  /\ \E k \in DiffKeys : last.diff[1].Next[k] = <<>>
  /\ last.patched # last.e
  /\ last.restored = last.e

\* Environment r is environment e, except that a key whose value in e is
\* the empty string may be absent from r.
UpToEmpty(r, e) ==
  /\ DOMAIN r \subseteq DOMAIN e
  /\ \A k \in DOMAIN e :
       IF k \in DOMAIN r THEN r[k] = e[k] ELSE e[k] = <<>>

\* C19 as stated: the diff of an environment with itself is empty, and for
\* all environments e1 and e2, empty values included, the diff from e1 to
\* e2 applied to e1 gives e2 on the keys that are not ignored and its
\* reverse applied to e2 gives e1 on them.
C19_Original ==
  last.op = "BuildEnvDiff" =>
    /\ last.e1 = last.e2 => IsEmpty(last.diff)
    /\ Filtered(last.patched) = Filtered(last.e2)
    /\ Filtered(last.restored) = Filtered(last.e1)

\* C19 as amended: the same, except that a key whose value in the target
\* environment is the empty string may be absent from the result.
C19_Amended ==
  last.op = "BuildEnvDiff" =>
    /\ last.e1 = last.e2 => IsEmpty(last.diff)
    /\ UpToEmpty(Filtered(last.patched), Filtered(last.e2))
    /\ UpToEmpty(Filtered(last.restored), Filtered(last.e1))

\* The diff of two environments that differ on both kept keys, one added
\* and one removed, and on an ignored key, none of their values empty: the
\* diff applied to the first gives the second on the kept keys, and its
\* reverse gives the first.
C19_Witness ==
  /\ last.op = "BuildEnvDiff"
  /\ DOMAIN last.diff[1].Next = DiffKeys
  /\ \E k \in DiffKeys : k \notin DOMAIN last.e1
  /\ \E k \in DiffKeys : k \notin DOMAIN last.e2
  /\ \A k \in DOMAIN last.e1 : last.e1[k] # <<>>
  /\ \A k \in DOMAIN last.e2 : last.e2[k] # <<>>
  /\ \E k \in DOMAIN last.e2 : IgnoredEnv(k) /\ k \notin DOMAIN last.e1
  /\ Filtered(last.patched) = Filtered(last.e2)
  /\ Filtered(last.restored) = Filtered(last.e1)

\* The ignored keys as the specification lists them.
IgnoredKey(k) ==
  \/ k \in {<<"P", "W", "D">>, <<"O", "L", "D", "P", "W", "D">>,
             <<"S", "H", "L", "V", "L">>, <<"_">>,
             <<"T", "E", "R", "M", "_", "S", "E", "S", "S", "I", "O", "N", "_", "I", "D">>}
  \/ Len(k) >= 8 /\ SubSeq(k, 1, 8) = <<"C", "A", "S", "C", "A", "D", "E", "_">>

\* C20: Filtered returns no ignored key and no key or value the environment
\* does not hold; a diff built by BuildEnvDiff names no ignored key, and
\* neither do the set and unset lines derived from it or from its reverse.
C20_IgnoredNeverInDiff ==
  /\ last.op = "Filtered" =>
       \A k \in DOMAIN last.filtered :
         ~IgnoredKey(k) /\ k \in DOMAIN last.e /\ last.filtered[k] = last.e[k]
  /\ last.op = "BuildEnvDiff" =>
       \A k \in DOMAIN last.diff[1].Prev \cup DOMAIN last.diff[1].Next
                 \cup DOMAIN last.export \cup DOMAIN last.revert : ~IgnoredKey(k)

\* The diff of an environment that holds CASCADE_DIFF and one that holds
\* CASCADE_DIR instead and differs on a kept key: the diff is not empty and
\* names neither.
C20_Witness ==
  /\ last.op = "BuildEnvDiff"
  /\ CASCADE_DIFF \in DOMAIN last.e1 /\ CASCADE_DIFF \notin DOMAIN last.e2
  /\ CASCADE_DIR \in DOMAIN last.e2
  /\ ~IsEmpty(last.diff)
  /\ DOMAIN last.diff[1].Next \subseteq DiffKeys
  /\ DOMAIN last.export = DOMAIN last.diff[1].Next

\* A Save or Delete is between its first filesystem call and its return.
Running(s) == race[s].pc \notin {"idle", "done"}

\* The entry on disk is absent or the whole entry of one of the Saves.
EntryComplete(loaded) ==
  /\ loaded.err = ""
  /\ loaded.state = <<>> \/ \E s \in Savers : loaded.state = <<StateOf(s)>>

\* C21: while Saves run concurrently with Load, every Load returns without
\* error either no entry or the complete entry some Save wrote, never a
\* partly written or empty one; and once no Save is running no temporary
\* file is left.
C21_AtomicWrites ==
  /\ last.op = "Load" => EntryComplete(last)
  /\ (\A s \in Savers : ~Running(s)) => tmpFile(PathT) \notin DOMAIN stateDir.names

\* C22: a race of two Saves, or of a Save and a Delete, is benign: once no
\* operation is running the entry is absent or the complete entry of one of
\* the Saves, and no Save has returned an error.
C22_RacesBenign ==
  (\A s \in Savers \cup {"d"} : ~Running(s)) =>
    /\ EntryComplete(StoreLoad(stateDir, PathT))
    /\ \A s \in Savers : race[s].err = ""

Present(state) == [state |-> <<state>>, err |-> ""]

NotPresent == [state |-> <<>>, err |-> ""]

\* C23: after Save returns, Load of that script returns the entry just saved
\* (path, content hash and diff), whatever was stored before; Load of a script
\* never saved or since deleted returns no entry and no error; and a Save or
\* Delete of one script leaves what Load returns for the other unchanged.
C23_SaveLoadRoundTrip ==
  /\ last.op = "Save" =>
       /\ last.err = ""
       /\ last.after[last.path] = Present(last.state)
       /\ \A q \in ExportPaths \ {last.path} : last.after[q] = last.before[q]
  /\ last.op = "Delete" =>
       /\ last.err = ""
       /\ last.after[last.path] = NotPresent
       /\ \A q \in ExportPaths \ {last.path} : last.after[q] = last.before[q]
  /\ last.op = "Load" =>
       /\ last.err = ""
       /\ last.state = last.before[last.path].state
       /\ stateDir = EmptyDisk => last.state = <<>>
       /\ last.after = last.before

\* A Save that replaces a different entry of its script while the other
\* script has an entry.
C23_Witness ==
  /\ last.op = "Save"
  /\ last.before[last.path] \notin {NotPresent, Present(last.state)}
  /\ \E q \in ExportPaths \ {last.path} : last.before[q] # NotPresent /\ last.after[q] = last.before[q]
  /\ StoreLoad(stateDir, last.path) = Present(last.state)

\* No read, write or execute bit for group or others.
UserOnly(mode) == mode.g = {} /\ mode.o = {}

AllUserOnly(d) == (d.mode # <<>> => UserOnly(d.mode[1])) /\ \A n \in DOMAIN d.files : UserOnly(d.files[n])

\* C24: every directory and file the authorization store creates (allow,
\* deny, trust), like those of the state store and the cache, has no
\* permission bit for group or others.
C24_UserOnly == \A k \in DOMAIN fs : AllUserOnly(fs[k])

\* The shell holds for every variable of diff the value diff.Prev records,
\* and does not hold the variable when that value is empty.
Reverted(diff) ==
  \A k \in DOMAIN diff[1].Prev :
    IF diff[1].Prev[k] = <<>> THEN k \notin DOMAIN shellEnv
    ELSE k \in DOMAIN shellEnv /\ shellEnv[k] = diff[1].Prev[k]

\* The run found denied script number i and, before it, state with a diff
\* was saved for that script.
SavedFor(run, i) ==
  \E p \in ScriptPaths :
    /\ p = run.denied[i]
    /\ Load(stateDir, p) # <<>>
    /\ Load(stateDir, p)[1].Diff # NilDiff

SavedDiffOf(run, i) == Load(stateDir, CHOOSE p \in ScriptPaths : p = run.denied[i])[1].Diff

RevertedWith(run, diff) == run.reverted /\ run.revertedDiff = diff

OnlyWarned(run) ==
  /\ ~run.reverted
  /\ run.stdout = <<>>
  /\ \E i \in DOMAIN run.stderr : run.stderr[i][1] = "warning: environment may contain stale variables"

DeniedRun(run) == run.op = "export" /\ run.err = "" /\ run.denied # <<>>

\* The choice among the three ways out of a run with a denied script.
DeniedChoice(run) ==
  IF run.prevDiff # NilDiff /\ ~IsEmpty(run.prevDiff) THEN RevertedWith(run, run.prevDiff)
  ELSE IF \E i \in DOMAIN run.denied : SavedFor(run, i)
  THEN \E i \in DOMAIN run.denied :
         /\ SavedFor(run, i)
         /\ \A j \in 1..(i - 1) : ~SavedFor(run, j)
         /\ RevertedWith(run, SavedDiffOf(run, i))
  ELSE OnlyWarned(run)

\* C25: a run that finds a denied script reverts with the session's prior
\* diff if that is not empty, else with the state saved for a denied script,
\* else only warns; a revert leaves the CASCADE_* variables unset and every
\* variable of the diff it used at its previous value.  When the denied
\* script is the one the session was exported from (trust, export, deny,
\* export again), the run reverts.
C25_DeniedReverts ==
  /\ [](DeniedRun(last) /\ last.reverted =>
          /\ \A k \in CascadeVars : k \notin DOMAIN shellEnv
          /\ Reverted(last.revertedDiff))
  /\ [][DeniedRun(last') =>
          /\ DeniedChoice(last')
          /\ (CASCADE_FILE \in DOMAIN shellEnv /\ \E i \in DOMAIN last'.denied : last'.denied[i] = shellEnv[CASCADE_FILE])
               => last'.reverted]_vars

\* The script of a trusted directory was exported, then denied; the run that
\* finds it denied reverts a diff that is not empty.
C25_Witness ==
  /\ DeniedRun(last)
  /\ last.denied = <<PathT>>
  /\ IsTrustedSubtree(DirT)
  /\ last.reverted
  /\ ~IsEmpty(last.revertedDiff)
  /\ CASCADE_DIR \notin DOMAIN shellEnv

\* The evaluation of a script failed in the run.
EvalFailed(run) ==
  /\ run.op = "export" /\ run.err = ""
  /\ \E i \in DOMAIN run.stderr : run.stderr[i][1] = "error evaluating"

\* The scripts evaluated are the allowed ones before the one that failed.
StoppedAtFailure(run) ==
  /\ Len(run.evaluated) < Len(run.allowed)
  /\ run.evaluated = SubSeq(run.allowed, 1, Len(run.evaluated))
  /\ \E i \in DOMAIN run.stderr : run.stderr[i] = <<"error evaluating", run.allowed[Len(run.evaluated) + 1]>>

\* C26: when the evaluation of an allowed script fails, no later script is
\* evaluated, the run takes the revert path with the session's prior diff
\* (printing nothing when there is none), its transcript sets a variable
\* only to restore a previous value of that diff, and the state directory is
\* left as it was.
C26_EvalFailureAborts ==
  /\ [](EvalFailed(last) =>
          /\ StoppedAtFailure(last)
          /\ last.revertPath
          /\ IF last.prevDiff # NilDiff /\ ~IsEmpty(last.prevDiff)
             THEN RevertedWith(last, last.prevDiff) /\ \A k \in CascadeVars : k \notin DOMAIN shellEnv
             ELSE ~last.reverted /\ last.stdout = <<>>
          /\ \A k \in DOMAIN last.stdout : Sets(k) => RestoresPrev(k))
  /\ [][EvalFailed(last') => stateDir' = stateDir]_vars

\* The second of two allowed scripts failed after the first was evaluated,
\* in a session with a prior diff.
C26_Witness ==
  /\ EvalFailed(last)
  /\ Len(last.allowed) > 1
  /\ Len(last.evaluated) = 1
  /\ last.reverted
  /\ ~IsEmpty(last.prevDiff)

\* Evaluate returned after it had spawned the child, and the child exited
\* with a non-zero status or nothing was read from fd 3.
FailedChild(run) ==
  /\ run.op = "Evaluate"
  /\ run.spawned
  /\ run.ret # 0 \/ run.json = <<>>

\* C27: whenever the child exits with a non-zero status, even though its
\* exit trap wrote the environment to fd 3, or nothing was read from fd 3,
\* Evaluate returns an error and no environment, and the call leaves the
\* cache as it was.
C27_FailedEvaluation ==
  /\ [](FailedChild(last) => last.err # "" /\ last.result = <<>>)
  /\ [][(race.pc = "waiting" /\ FailedChild(last')) => stateDir' = stateDir]_vars

\* The child exited with status 1 after its trap had dumped the environment:
\* Evaluate returned the exit-status error and the key is not in the cache.
C27_Witness ==
  /\ FailedChild(last)
  /\ race.pc = "returned"
  /\ last.ret = 1
  /\ last.json # <<>>
  /\ last.err = "bash exited with status"
  /\ race.key \notin DOMAIN stateDir

\* The pipe discipline of Evaluate: while it reads fd 3 it does not hold the
\* write end itself; it waits for the child only after end of file or a
\* failed read; it returns only after the child it spawned was reaped; and
\* after a failed read it returns the read error, the child killed.
PipeDiscipline ==
  /\ race.pc = "reading" => "parent" \notin race.fd3
  /\ (race.pc = "waiting" /\ ~race.readErr) => race.fd3 = {}
  /\ (race.pc = "returned" /\ last.spawned) => race.child = "reaped"
  /\ (race.pc = "returned" /\ race.readErr) => last.err = "read json output" /\ last.result = <<>>

\* The child has exited and no other process holds the write end of fd 3.
Fd3Released == race.child = "exited" /\ race.fd3 \ {"parent"} = {}

StoredFor(hash, inputEnv) == {t \in race.stored : t.hash = hash /\ t.env = inputEnv}

\* C30: with a cache attached, a hit returns the stored result without
\* spawning, and a miss spawns the child and stores the result of a
\* successful evaluation under its key; a call is a hit exactly when a
\* result computed from the same content hash and the same input
\* environment was stored before, in whatever order the environment's
\* entries are enumerated.
C30_CacheHits ==
  /\ []((last.op = "Evaluate" /\ last.hit) =>
          /\ ~last.spawned /\ last.err = ""
          /\ \E t \in StoredFor(last.rc.ContentHash, last.inputEnv) : last.result = <<t.result>>)
  /\ []((race.pc = "returned" /\ last.op = "Evaluate" /\ ~last.hit /\ last.err = "") =>
          /\ last.spawned
          /\ CacheGet(stateDir, race.key).result = last.result)
  /\ [][(race.pc = "idle" /\ race'.pc # "idle") =>
          /\ (last'.op = "Evaluate" /\ last'.hit) <=>
               (\E t \in race.stored : t.hash = race'.rc.ContentHash /\ t.env = race'.inputEnv)
          /\ (last'.op = "Evaluate" /\ last'.hit) \/ race'.child = "running" \/ last'.err = "start bash"]_vars

\* IN=first was evaluated and stored, then IN=second, both for the same
\* script content; the call with IN=first again is a hit.
C30_Witness ==
  /\ last.op = "Evaluate" /\ last.hit
  /\ last.inputEnv[<<"c">>] = <<"0">>
  /\ \A e \in EvalEnvs : StoredFor(last.rc.ContentHash, e) # {}
  /\ Cardinality(DOMAIN stateDir) = Cardinality(EvalEnvs)

\* The step before this state was the death of an Allow between its two
\* filesystem calls, for a script that was Denied when it died.
CrashedDenied == last.op = "Crash" /\ last.wasDenied

\* The allow entry Allow wrote and the deny entry it did not remove.
BothEntries ==
  /\ Stat(allowDir, last.rc.ContentHash)
  /\ Stat(denyDir, PathHash(last.rc.Path))

\* Since an Allow died on a denied script, no command of the given names ran
\* to its end.
NoneSince(ops) ==
  /\ race.finished # <<>>
  /\ \A i \in DOMAIN race.finished : race.finished[i] \notin ops

\* C29 (as stated): after Allow dies between writing the allow entry and
\* removing the deny entry of a denied script, the store holds both entries
\* and Check returns Denied; and Check returns Denied for the script as long
\* as no Revoke has run since.
C29_Original ==
  /\ CrashedDenied => BothEntries /\ DeniedT
  /\ NoneSince({"Revoke"}) => DeniedT

\* C29 (amended): after Allow dies between writing the allow entry and
\* removing the deny entry of a denied script, the store holds both entries
\* and Check returns Denied; and Check returns Denied for the script as long
\* as neither a Revoke nor an Allow has run to its end since.
C29_Amended ==
  /\ CrashedDenied => BothEntries /\ DeniedT
  /\ NoneSince({"Revoke", "Allow"}) => DeniedT

\* Allow died on a denied script, leaving both entries, and the content the
\* allow entry names is still the script's.
C29_Witness ==
  /\ CrashedDenied
  /\ NoneSince({"Revoke", "Allow"})
  /\ BothEntries
  /\ NewRC(PathT).rc.ContentHash = last.rc.ContentHash
  /\ Check(NewRC(PathT).rc) = "Denied"

\* The latest call of Evaluate returned, and the file of its key was not
\* the text of an entry when it looked.
MissedBadFile == last.op = "Evaluate" /\ last.found # "entry"

\* C31: Evaluate never fails because of the cache file: when the file of the
\* key is missing, unreadable, cut short or otherwise no JSON text of an
\* entry (as two concurrent Sets on the key can leave it), Get misses, bash
\* evaluates the script and Evaluate returns that result with a nil error;
\* and when no other call ran meanwhile and Set did not fail, a Get on the
\* key now yields that result.
C31_BadEntryIsMiss ==
  /\ last.op = "Evaluate" => last.err = ""
  /\ MissedBadFile => ~last.hit /\ last.result = Fresh(last.env)
  /\ (last.op = "Evaluate" /\ ~last.hit /\ last.alone /\ last.seterr = "") =>
       FileGet(stateDir, cfg.unreadable, last.key) = [ok |-> TRUE, result |-> <<last.result>>]

\* A call that ran alone found a file that was no entry, evaluated the
\* script and left an entry that Get returns.
C31_Witness ==
  /\ MissedBadFile
  /\ last.found = "unparsable"
  /\ last.alone /\ last.seterr = ""
  /\ FileGet(stateDir, cfg.unreadable, last.key).ok

\* C32: the bytes bash sources for a script are the bytes whose content hash
\* the run classified as Allowed, and every result stored in the cache is
\* stored under the key of the content that produced it.
C32_EvaluatesCheckedBytes ==
  /\ (last.op = "Evaluate" /\ ~last.hit) => SpecHash(last.rc.Path, last.sourced) = last.rc.ContentHash
  /\ \A s \in race.stored : SpecHash(PathT, s.sourced) = s.hash

\* C33: Evaluate with the cache returns what Evaluate without a cache
\* returns in the same state, whatever happened to the store and to the
\* sourced script since the entry was stored.
C33_CacheTransparent ==
  last.op = "Evaluate" => (last.result = last.nocache.result /\ last.err = last.nocache.err)

\* The bash child ran and the sourced script was a file that the store did
\* not report as Allowed.
TargetRefused == last.op = "Evaluate" /\ ~last.hit /\ last.targetIs \in {"NotAllowed", "Denied"}

SessionFor(run, path) ==
  /\ {CASCADE_DIFF, CASCADE_DIR, CASCADE_FILE} \subseteq DOMAIN run.stdout
  /\ run.stdout[CASCADE_FILE] = <<path>>
  /\ run.stdout[CASCADE_DIR] = <<Dir(path)>>
  /\ Load(run.state, path) # <<>>
  /\ run.stdout[CASCADE_DIFF] = <<Marshal(Load(run.state, path)[1].Diff)>>
  /\ IsEmpty(Load(run.state, path)[1].Diff) => run.stdout[CASCADE_DIFF] = <<<<>>>>
  /\ \A k \in DOMAIN run.stdout \ CascadeVars :
       /\ k \in DOMAIN Load(run.state, path)[1].Diff[1].Next
       /\ run.stdout[k] = DiffExport(Load(run.state, path)[1].Diff[1].Next)[k]
  /\ DOMAIN Load(run.state, path)[1].Diff[1].Next \subseteq DOMAIN run.stdout

C36_RevertOnce ==
  /\ (last.op = "export" /\ last.err = "" /\ last.afterDeniedRevert /\ last.denied # <<>>) =>
       (last.stdout = <<>> /\ ~last.reverted)
  /\ (DeniedRun(last) /\ last.reverted) =>
       \A i \in DOMAIN last.denied : Load(stateDir, last.denied[i]) = <<>>

\* The second run after a denial-triggered revert: it prints the warnings
\* and nothing else.
C36_Witness ==
  /\ DeniedRun(last)
  /\ last.afterDeniedRevert
  /\ last.stdout = <<>>
  /\ InSeq(last.stderr, <<"warning: environment may contain stale variables", <<>> >>)

\* C37: an export run leaves the allow, deny and trust directories as they
\* were, whatever its outcome; a step that changes one of them is a store
\* command, which is neither an export run nor an edit of a script.
C37_ExportFrame ==
  [][/\ last'.op = "export" => (allowDir' = allowDir /\ denyDir' = denyDir /\ trustDir' = trustDir)
     /\ (allowDir' # allowDir \/ denyDir' # denyDir \/ trustDir' # trustDir) =>
          (last'.op # "export" /\ fs' = fs /\ shellEnv' = shellEnv /\ stateDir' = stateDir)]_vars

\* A run evaluated the project script, which has no allow entry and is
\* Allowed through the trusted subtree alone.
C37_Witness ==
  /\ last.op = "export" /\ last.err = ""
  /\ InSeq(last.evaluated, PathT)
  /\ ~Stat(allowDir, NewRC(PathT).rc.ContentHash)
  /\ IsTrustedSubtree(PathT)

\* C38: a Deny or Revoke step leaves every allow entry other than the one
\* of the script's content hash at the call as it was; and after a
\* successful allow of content A, an edit to another content, a successful
\* deny, a successful revoke and an edit back to A, Check returns Allowed.
C38_OtherEntriesPersist ==
  /\ [](race.n = 5 => Check(NewRC(PathT).rc) = "Allowed")
  /\ [][last'.op \in {"Deny", "Revoke"} =>
          \A h \in DOMAIN allowDir :
            h # last'.rc.ContentHash => (h \in DOMAIN allowDir' /\ allowDir'[h] = allowDir[h])]_vars

\* The five steps of the sequence have just been made, and the script holds
\* the allowed content again.
C38_Witness ==
  /\ race.n = 5
  /\ last.op = "WriteScript"
  /\ fs[PathT] = RegularFile(race.A)

\* The hook functions are registered: the sequence function and the hook in
\* precmd_functions, the hook in chpwd_functions.
Installed ==
  /\ Index(race.precmd_functions, "_cascade_precmd_seq")
  /\ Index(race.precmd_functions, "_cascade_hook")
  /\ Index(race.chpwd_functions, "_cascade_hook")

Times(array, name) == Cardinality({i \in DOMAIN array : array[i] = name})

\* However often the hook script is evaluated, each function is registered
\* at most once in each array.
RegisteredOnce ==
  /\ Times(race.precmd_functions, "_cascade_precmd_seq") <= 1
  /\ Times(race.precmd_functions, "_cascade_hook") <= 1
  /\ Times(race.chpwd_functions, "_cascade_hook") <= 1

\* At a prompt shown with the hook installed, export has run exactly once
\* since the previous prompt.
OncePerPrompt ==
  (last.op = "precmd" /\ Installed) => Exports(last.cycle) = 1

\* The directory-change invocation never runs export: the hook has always
\* run under the current sequence number when a command changes directory.
ChpwdNeverExports ==
  \A i \in DOMAIN last.cycle : last.cycle[i].by = "chpwd" => ~last.cycle[i].ran

\* C39: at a prompt shown after a command that changed directory, with the
\* hook installed throughout, each function is registered once, export has
\* run exactly once since the previous prompt, and of the invocations made by
\* the directory change and by the pre-prompt hook it is the first that runs
\* export and every later one that is skipped.
C39_SecondSkipped ==
  /\ RegisteredOnce
  /\ OncePerPrompt
  /\ (last.op = "precmd" /\ Len(last.cycle) >= 2 /\ last.cycle[1].by = "chpwd") =>
       (last.cycle[1].ran /\ \A i \in 2..Len(last.cycle) : ~last.cycle[i].ran)

====
